---- MODULE Spec2Model ----
(***************************************************************************)
(* A model of python-cjson (src/cjson.c): the JSON decoder that walks a    *)
(* cursor over a NUL-terminated byte buffer, and the encoder that walks a  *)
(* Python object graph.  Bytes are integers 0..255, offsets are 0-based    *)
(* as in the C code (ptr - str).                                           *)
(***************************************************************************)
EXTENDS Integers, Sequences, FiniteSets, TLC

(* ------------------------------ bytes -------------------------------- *)
NUL == 0
BS == 8
TAB == 9
LF == 10
VT == 11
FF == 12
CR == 13
SPACE == 32
QUOTE == 34
PLUS == 43
COMMA == 44
MINUS == 45
DOT == 46
CH_0 == 48
CH_1 == 49
CH_9 == 57
COLON == 58
CH_E == 69
CH_I == 73
CH_N == 78
LBRACKET == 91
BACKSLASH == 92
RBRACKET == 93
CH_a == 97
CH_b == 98
CH_e == 101
CH_f == 102
CH_n == 110
CH_r == 114
CH_t == 116
CH_u == 117
CH_x == 120
LBRACE == 123
RBRACE == 125
DEL == 127

\* The bytes of the keywords the scalar decoders compare with strncmp.
KW_null == <<110, 117, 108, 108>>
KW_true == <<116, 114, 117, 101>>
KW_false == <<102, 97, 108, 115, 101>>
KW_NaN == <<78, 97, 78>>
KW_Infinity == <<73, 110, 102, 105, 110, 105, 116, 121>>

\* *(str + p): the byte at offset p; the buffer is NUL-terminated at end.
\* An offset past the terminator is outside the buffer (-1 marks the read).
At(buf, p) ==
  IF p < Len(buf) THEN buf[p + 1] ELSE IF p = Len(buf) THEN NUL ELSE -1

\* isspace() in the C locale: space, \t, \n, \v, \f, \r.
\* A skipSpaces that takes the terminating NUL for white space.
isspace_nul(c) == c \in {SPACE, TAB, LF, VT, FF, CR, NUL}
\* A skipSpaces that does not know the vertical tab.
isspace_noVT(c) == c \in {TAB, LF, FF, CR, SPACE}
isspace(c) == c \in {SPACE, TAB, LF, VT, FF, CR}

isdigit(c) == c >= CH_0 /\ c <= CH_9

\* isascii(): no bit above the low seven is set.
isascii(c) == c >= 0 /\ c <= 127

\* skipSpaces(d): the offset the cursor stops at.
RECURSIVE skipSpaces(_, _)
skipSpaces(buf, p) ==
  IF isspace(At(buf, p)) THEN skipSpaces(buf, p + 1) ELSE p

\* A skipDigits that stops after one digit.
skipDigits_one(buf, p) == IF isdigit(At(buf, p)) THEN p + 1 ELSE p

\* skipDigits(ptr)
RECURSIVE skipDigits(_, _)
skipDigits(buf, p) ==
  IF isdigit(At(buf, p)) THEN skipDigits(buf, p + 1) ELSE p

\* strncmp(ptr, word, n) == 0 guarded by left >= n.
RECURSIVE PrefixEq(_, _, _, _)
PrefixEq(buf, p, word, i) ==
  IF i > Len(word) THEN TRUE
  ELSE At(buf, p + i - 1) = word[i] /\ PrefixEq(buf, p, word, i + 1)

matchKeyword(buf, p, word) ==
  Len(buf) - p >= Len(word) /\ PrefixEq(buf, p, word, 1)

\* buf[from, to) as a sequence (offsets 0-based).
Slice(buf, from, to) == SubSeq(buf, from + 1, to)

(* ------------------------------ values ------------------------------- *)
\* Python objects the codec produces or consumes.  k is the type tag.
PyNone == [k |-> "null", v |-> 0]
PyBool(b) == [k |-> "bool", v |-> b]
PyInt(i) == [k |-> "int", v |-> i]
PyFloatFin(neg, m, e) == [k |-> "float", v |-> [cls |-> "fin", neg |-> neg, m |-> m, e |-> e]]
PyFloatInf(neg) == [k |-> "float", v |-> [cls |-> "inf", neg |-> neg, m |-> 0, e |-> 0]]
PyFloatNaN == [k |-> "float", v |-> [cls |-> "nan", neg |-> FALSE, m |-> 0, e |-> 0]]
PyStr(bytes) == [k |-> "str", v |-> bytes]
PyUnicode(cps) == [k |-> "unicode", v |-> cps]
\* A str of more than (PY_SSIZE_T_MAX - 2) / 6 bytes; its bytes are left out.
PyStrTooLarge == [k |-> "hugestr", v |-> <<>>]
PyList(items) == [k |-> "list", v |-> items]
PyTuple(items) == [k |-> "tuple", v |-> items]
PyDict(pairs) == [k |-> "dict", v |-> pairs]

(* ------------------------------ errors ------------------------------- *)
NoPos == -1
NoErr == [cls |-> "none", msg |-> "", pos |-> NoPos, snip |-> <<>>]
\* A decoder whose formatted messages leave the offset out.
DecodeErrorAt_nopos(msg, pos) == [cls |-> "DecodeError", msg |-> msg, pos |-> NoPos, snip |-> <<>>]
\* PyErr_Format(JSON_DecodeError, "... at position %zd", pos)
DecodeErrorAt(msg, pos) == [cls |-> "DecodeError", msg |-> msg, pos |-> pos, snip |-> <<>>]
\* PyErr_SetString(JSON_DecodeError, msg): the message holds no offset.
DecodeErrorMsg(msg) == [cls |-> "DecodeError", msg |-> msg, pos |-> NoPos, snip |-> <<>>]
\* PyErr_Format(JSON_DecodeError, "cannot parse JSON description: %.20s", ptr)
DecodeErrorSnip(buf, p) ==
  [cls |-> "DecodeError", msg |-> "cannot parse JSON description: ", pos |-> NoPos,
   snip |-> Slice(buf, p, IF p + 20 < Len(buf) THEN p + 20 ELSE Len(buf))]

\* What a decoder returns: the object (ok) or NULL with the error set, and
\* the cursor it leaves in jsondata->ptr.  far is the highest offset of the
\* buffer the decoder read a byte at (-1: none), trail the offsets
\* jsondata->ptr took, in the order it took them.
Ok(val, p) ==
  [ok |-> TRUE, val |-> val, ptr |-> p, err |-> NoErr, held |-> 0, low |-> 0,
   far |-> -1, trail |-> <<p>>]
Fail(err, p) ==
  [ok |-> FALSE, val |-> PyNone, ptr |-> p, err |-> err, held |-> 0, low |-> 0,
   far |-> -1, trail |-> <<p>>]

\* The recursion guard as a decoder leaves it: held is the number of levels
\* entered and not left since the decoder was called, low the lowest level
\* it went to, both counted from the level it was called at.
\* The result r of the code that runs after the nested decoder returned first.
After(first, r) ==
  [r EXCEPT !.held = first.held + r.held,
            !.low = IF first.low < first.held + r.low THEN first.low
                    ELSE first.held + r.low,
            !.far = IF first.far > r.far THEN first.far ELSE r.far,
            !.trail = first.trail \o r.trail]
\* A decoder that returns without Py_LeaveRecursiveCall.
Guarded_noleave(r) ==
  [r EXCEPT !.held = r.held + 1, !.low = IF r.low + 1 < 0 THEN r.low + 1 ELSE 0]
\* Py_EnterRecursiveCall, the container decoder that returned r, and
\* Py_LeaveRecursiveCall.
Guarded(r) ==
  LET inside == IF r.low + 1 < 0 THEN r.low + 1 ELSE 0
      after == (r.held + 1) - 1
  IN [r EXCEPT !.held = after, !.low = IF after < inside THEN after ELSE inside]
\* The result r of the code that runs after the bytes at from..to were
\* read with jsondata->ptr at from (by the cursor itself in skipSpaces, by
\* a local pointer or by the formatting of a message elsewhere).
Scan(from, to, r) ==
  [r EXCEPT !.far = IF to > r.far THEN to ELSE r.far,
            !.trail = <<from>> \o r.trail]
\* The thread state after the decoder returned r.
Returned(ts, r) == [ts EXCEPT !.depth = ts.depth + r.held]

(* ------------------------- scalar decoders --------------------------- *)
\* A keyword decoder reads the bytes strncmp compares (none when fewer
\* than n are left) and, for the message, the bytes "%.20s" prints: up to
\* twenty, the terminator when it comes first.
decode_null(buf, p) ==
  IF matchKeyword(buf, p, KW_null) THEN Scan(p, p + 3, Ok(PyNone, p + 4))
  ELSE Scan(p, (IF p + 19 < Len(buf) THEN p + 19 ELSE Len(buf)), Fail(DecodeErrorSnip(buf, p), p))

decode_bool(buf, p) ==
  IF matchKeyword(buf, p, KW_true) THEN Scan(p, p + 3, Ok(PyBool(TRUE), p + 4))
  ELSE IF matchKeyword(buf, p, KW_false) THEN Scan(p, p + 4, Ok(PyBool(FALSE), p + 5))
  ELSE Scan(p, (IF p + 19 < Len(buf) THEN p + 19 ELSE Len(buf)), Fail(DecodeErrorSnip(buf, p), p))

decode_inf(buf, p) ==
  IF matchKeyword(buf, p, KW_Infinity) THEN Scan(p, p + 7, Ok(PyFloatInf(FALSE), p + 8))
  ELSE IF matchKeyword(buf, p, <<PLUS>> \o KW_Infinity)
    THEN Scan(p, p + 8, Ok(PyFloatInf(FALSE), p + 9))
  ELSE IF matchKeyword(buf, p, <<MINUS>> \o KW_Infinity)
    THEN Scan(p, p + 8, Ok(PyFloatInf(TRUE), p + 9))
  ELSE Scan(p, (IF p + 19 < Len(buf) THEN p + 19 ELSE Len(buf)), Fail(DecodeErrorSnip(buf, p), p))

decode_nan(buf, p) ==
  IF matchKeyword(buf, p, KW_NaN) THEN Scan(p, p + 2, Ok(PyFloatNaN, p + 3))
  ELSE Scan(p, (IF p + 19 < Len(buf) THEN p + 19 ELSE Len(buf)), Fail(DecodeErrorSnip(buf, p), p))

\* The value of the decimal digits buf[from, to).
RECURSIVE DigitsVal(_, _, _)
DigitsVal(buf, from, to) ==
  IF to <= from THEN 0
  ELSE 10 * DigitsVal(buf, from, to - 1) + (At(buf, to - 1) - CH_0)

\* A conversion that drops the sign.
PyInt_FromString_unsigned(buf, from, to) ==
  PyInt(DigitsVal(buf, IF At(buf, from) \in {MINUS, PLUS} THEN from + 1 ELSE from, to))

\* PyInt_FromString(token, NULL, 10) on a validated token buf[from, to):
\* strtol-style, an optional sign then the digits; longs are unbounded.
PyInt_FromString(buf, from, to) ==
  LET signed == At(buf, from) \in {MINUS, PLUS}
      mag == DigitsVal(buf, IF signed THEN from + 1 ELSE from, to)
  IN PyInt(IF At(buf, from) = MINUS THEN 0 - mag ELSE mag)

\* A finite double is kept as the decimal it was written as, normalised:
\* neg, m, e stand for (-1)^neg * m * 10^e with m free of trailing zeros.
RECURSIVE NormFloat(_, _, _)
NormFloat(neg, m, e) ==
  IF m = 0 THEN PyFloatFin(neg, 0, 0)
  ELSE IF m % 10 = 0 THEN NormFloat(neg, m \div 10, e + 1)
  ELSE PyFloatFin(neg, m, e)

RECURSIVE Pow10(_)
Pow10(n) == IF n <= 0 THEN 1 ELSE 10 * Pow10(n - 1)

\* PyFloat_FromString on a validated token: sign, integer digits
\* buf[i0, i1), fraction digits buf[f0, f1), exponent digits buf[x0, x1)
\* with sign xneg.
PyFloat_FromString(buf, from, i0, i1, f0, f1, xneg, x0, x1) ==
  LET m == DigitsVal(buf, i0, i1) * Pow10(f1 - f0) + DigitsVal(buf, f0, f1)
      x == DigitsVal(buf, x0, x1)
  IN NormFloat(At(buf, from) = MINUS, m, (IF xneg THEN 0 - x ELSE x) - (f1 - f0))

NumberError(p) == DecodeErrorAt("invalid number starting at position ", p)

decode_number(buf, p) ==
  LET i0 == IF At(buf, p) = MINUS \/ At(buf, p) = PLUS THEN p + 1 ELSE p
      zero == At(buf, i0) = CH_0
      i1 == IF zero THEN i0 + 1 ELSE skipDigits(buf, i0)
      int_ok == IF zero THEN ~isdigit(At(buf, i1)) ELSE isdigit(At(buf, i0))
      has_frac == At(buf, i1) = DOT
      f0 == IF has_frac THEN i1 + 1 ELSE i1
      frac_ok == has_frac => isdigit(At(buf, f0))
      f1 == IF has_frac THEN skipDigits(buf, f0) ELSE i1
      has_exp == At(buf, f1) = CH_e \/ At(buf, f1) = CH_E
      xs == f1 + 1
      x0 == IF ~has_exp THEN f1
            ELSE IF At(buf, xs) = PLUS \/ At(buf, xs) = MINUS THEN xs + 1 ELSE xs
      exp_ok == has_exp => isdigit(At(buf, x0))
      x1 == IF has_exp THEN skipDigits(buf, x0) ELSE f1
      is_float == has_frac \/ has_exp
  IN IF ~int_ok THEN Scan(p, IF zero THEN i1 ELSE i0, Fail(NumberError(p), p))
     ELSE IF ~frac_ok THEN Scan(p, f0, Fail(NumberError(p), p))
     ELSE IF ~exp_ok THEN Scan(p, x0, Fail(NumberError(p), p))
     ELSE IF is_float
       THEN Scan(p, x1, Ok(PyFloat_FromString(buf, p, i0, i1, f0, f1,
                                  has_exp /\ At(buf, xs) = MINUS, x0, x1), x1))
       ELSE Scan(p, x1, Ok(PyInt_FromString(buf, p, x1), x1))

(* ------------------------- string decoding --------------------------- *)
\* The scan for the closing quote: [closed, end, has_unicode, string_escape]
\* where end is the offset of the closing quote (or of the NUL reached).
RECURSIVE ScanString(_, _, _, _, _)
ScanString(buf, q, escaping, has_unicode, string_escape) ==
  LET c == At(buf, q) IN
  IF c = NUL
    THEN [closed |-> FALSE, end |-> q, has_unicode |-> has_unicode,
          string_escape |-> string_escape]
  ELSE IF ~escaping
    THEN IF c = BACKSLASH
           THEN ScanString(buf, q + 1, TRUE, has_unicode, string_escape)
         ELSE IF c = QUOTE
           THEN [closed |-> TRUE, end |-> q, has_unicode |-> has_unicode,
                 string_escape |-> string_escape]
         ELSE IF ~isascii(c)
           THEN ScanString(buf, q + 1, FALSE, TRUE, string_escape)
         ELSE ScanString(buf, q + 1, FALSE, has_unicode, string_escape)
  ELSE IF c = CH_u
    THEN ScanString(buf, q + 1, FALSE, TRUE, string_escape)
  ELSE IF c \in {QUOTE, CH_r, CH_n, CH_t, CH_b, CH_f, BACKSLASH}
    THEN ScanString(buf, q + 1, FALSE, has_unicode, TRUE)
  ELSE ScanString(buf, q + 1, FALSE, has_unicode, string_escape)

\* The value of a hexadecimal digit, -1 for any other byte.
HexVal(c) ==
  IF c >= 48 /\ c <= 57 THEN c - 48
  ELSE IF c >= 97 /\ c <= 102 THEN c - 87
  ELSE IF c >= 65 /\ c <= 70 THEN c - 55
  ELSE -1

\* n hexadecimal digits of s from index i (1-based): their value, or -1
\* when one of them is missing or is no hexadecimal digit.
RECURSIVE HexRun(_, _, _, _)
HexRun(s, i, n, acc) ==
  IF n = 0 THEN acc
  ELSE IF i > Len(s) \/ HexVal(s[i]) < 0 THEN -1
  ELSE HexRun(s, i + 1, n - 1, 16 * acc + HexVal(s[i]))

isoctal(c) == c >= 48 /\ c <= 55

\* Up to three octal digits of s from index i: <<value, digits used>>.
OctRun(s, i) ==
  LET d(j) == IF j <= Len(s) /\ isoctal(s[j]) THEN s[j] - 48 ELSE -1 IN
  IF d(i + 1) < 0 THEN <<d(i), 1>>
  ELSE IF d(i + 2) < 0 THEN <<8 * d(i) + d(i + 1), 2>>
  ELSE <<64 * d(i) + 8 * d(i + 1) + d(i + 2), 3>>

\* The character a one-letter escape stands for in both host decoders
\* (\\ \' \" \b \f \t \n \r \v \a), or -1.
SimpleEscape(c) ==
  CASE c = BACKSLASH -> BACKSLASH
    [] c = 39 -> 39
    [] c = QUOTE -> QUOTE
    [] c = CH_b -> BS
    [] c = CH_f -> FF
    [] c = CH_t -> TAB
    [] c = CH_n -> LF
    [] c = CH_r -> CR
    [] c = 118 -> VT
    [] c = CH_a -> 7
    [] OTHER -> -1

EscOk(out) == [ok |-> TRUE, v |-> out, unicode_error |-> FALSE]
EscFail(uni) == [ok |-> FALSE, v |-> <<>>, unicode_error |-> uni]

\* PyString_DecodeEscape(s, len, NULL, 0, NULL): the host's byte-string
\* escape decoder.  Unknown escapes keep the backslash; a bad \x is a
\* ValueError.
RECURSIVE PyString_DecodeEscape(_, _, _)
PyString_DecodeEscape(s, i, out) ==
  IF i > Len(s) THEN EscOk(out)
  ELSE IF s[i] # BACKSLASH THEN PyString_DecodeEscape(s, i + 1, Append(out, s[i]))
  ELSE IF i = Len(s) THEN EscFail(FALSE)
  ELSE LET c == s[i + 1] IN
    IF c = LF THEN PyString_DecodeEscape(s, i + 2, out)
    ELSE IF SimpleEscape(c) >= 0
      THEN PyString_DecodeEscape(s, i + 2, Append(out, SimpleEscape(c)))
    ELSE IF isoctal(c)
      THEN LET o == OctRun(s, i + 1)
           IN PyString_DecodeEscape(s, i + 1 + o[2], Append(out, o[1] % 256))
    ELSE IF c = 120
      THEN IF HexRun(s, i + 2, 2, 0) < 0 THEN EscFail(FALSE)
           ELSE PyString_DecodeEscape(s, i + 4, Append(out, HexRun(s, i + 2, 2, 0)))
    ELSE PyString_DecodeEscape(s, i + 2, out \o <<BACKSLASH, c>>)

\* PyUnicode_DecodeUnicodeEscape(s, len, NULL): the host's unicode-escape
\* decoder.  Plain bytes are Latin-1 code points; \uXXXX and \UXXXXXXXX
\* give the code unit written; a truncated escape is a UnicodeDecodeError.
RECURSIVE PyUnicode_DecodeUnicodeEscape(_, _, _)
PyUnicode_DecodeUnicodeEscape(s, i, out) ==
  IF i > Len(s) THEN EscOk(out)
  ELSE IF s[i] # BACKSLASH
    THEN PyUnicode_DecodeUnicodeEscape(s, i + 1, Append(out, s[i]))
  ELSE IF i = Len(s) THEN EscFail(TRUE)
  ELSE LET c == s[i + 1] IN
    IF c = LF THEN PyUnicode_DecodeUnicodeEscape(s, i + 2, out)
    ELSE IF SimpleEscape(c) >= 0
      THEN PyUnicode_DecodeUnicodeEscape(s, i + 2, Append(out, SimpleEscape(c)))
    ELSE IF isoctal(c)
      THEN LET o == OctRun(s, i + 1)
           IN PyUnicode_DecodeUnicodeEscape(s, i + 1 + o[2], Append(out, o[1]))
    ELSE IF c = 120
      THEN IF HexRun(s, i + 2, 2, 0) < 0 THEN EscFail(TRUE)
           ELSE PyUnicode_DecodeUnicodeEscape(s, i + 4, Append(out, HexRun(s, i + 2, 2, 0)))
    ELSE IF c = CH_u
      THEN IF HexRun(s, i + 2, 4, 0) < 0 THEN EscFail(TRUE)
           ELSE PyUnicode_DecodeUnicodeEscape(s, i + 6, Append(out, HexRun(s, i + 2, 4, 0)))
    ELSE IF c = 85
      THEN IF HexRun(s, i + 2, 8, 0) < 0 \/ HexRun(s, i + 2, 8, 0) > 1114111
             THEN EscFail(TRUE)
           ELSE PyUnicode_DecodeUnicodeEscape(s, i + 10, Append(out, HexRun(s, i + 2, 8, 0)))
    ELSE IF c = CH_N THEN EscFail(TRUE)
    ELSE PyUnicode_DecodeUnicodeEscape(s, i + 2, out \o <<BACKSLASH, c>>)

\* A decoder that widens no String on request.
decode_string_nowiden(buf, p, all_unicode) ==
  LET sc == ScanString(buf, p + 1, FALSE, FALSE, FALSE)
      interior == Slice(buf, p + 1, sc.end)
  IN Scan(p, sc.end,
     IF ~sc.closed
       THEN Fail(DecodeErrorAt("unterminated string starting at position ", p), p)
     ELSE IF sc.has_unicode
       THEN LET r == PyUnicode_DecodeUnicodeEscape(interior, 1, <<>>) IN
            IF r.ok THEN Ok(PyUnicode(r.v), sc.end + 1)
            ELSE Fail(DecodeErrorAt("cannot decode string starting at position ", p), p)
     ELSE LET r == PyString_DecodeEscape(interior, 1, <<>>) IN
          IF r.ok THEN Ok(PyStr(r.v), sc.end + 1)
          ELSE Fail(DecodeErrorAt("invalid string starting at position ", p), p))

decode_string(buf, p, all_unicode) ==
  LET sc == ScanString(buf, p + 1, FALSE, FALSE, FALSE)
      interior == Slice(buf, p + 1, sc.end)
  IN Scan(p, sc.end,
     IF ~sc.closed
       THEN Fail(DecodeErrorAt("unterminated string starting at position ", p), p)
     ELSE IF sc.has_unicode \/ all_unicode
       THEN LET r == PyUnicode_DecodeUnicodeEscape(interior, 1, <<>>) IN
            IF r.ok THEN Ok(PyUnicode(r.v), sc.end + 1)
            ELSE IF r.unicode_error
              THEN Fail(DecodeErrorAt("cannot decode string starting at position ", p), p)
            ELSE Fail(DecodeErrorAt("invalid string starting at position ", p), p)
     ELSE IF sc.string_escape
       THEN LET r == PyString_DecodeEscape(interior, 1, <<>>) IN
            IF r.ok THEN Ok(PyStr(r.v), sc.end + 1)
            ELSE IF r.unicode_error
              THEN Fail(DecodeErrorAt("cannot decode string starting at position ", p), p)
            ELSE Fail(DecodeErrorAt("invalid string starting at position ", p), p)
     ELSE Ok(PyStr(interior), sc.end + 1))

(* ------------------------ container decoders ------------------------- *)
\* The host's recursion limit (sys.getrecursionlimit()) unless the program
\* has set another.
RecursionLimit == 3
\* The recursion limit in force (sys.setrecursionlimit).
VARIABLE limit

\* A guard that lets one more level in than the limit.
RecursionExceeded_late(depth) == depth > limit

\* Py_EnterRecursiveCall(where) fails when ++recursion_depth exceeds the
\* limit: the host sets its own exception, the codec sets none.
RecursionExceeded(depth) == depth + 1 > limit
RecursionError(where) ==
  [cls |-> "RuntimeError", msg |-> "maximum recursion depth exceeded" \o where,
   pos |-> NoPos, snip |-> <<>>]

\* Python 2 key equality: same kind, same content; a str and a unicode
\* are the same key only when the content is pure ASCII, a string and a
\* number are never the same key.
KeyEq(a, b) ==
  IF a.k \in {"str", "unicode"} /\ b.k \in {"str", "unicode"}
    THEN /\ a.v = b.v
         /\ (a.k # b.k => \A i \in 1..Len(a.v) : a.v[i] < 128)
  ELSE a.k = b.k /\ a.v = b.v

\* A mapping that keeps the value an equal key already has.
PyDict_SetItem_keepfirst(pairs, key, value) ==
  IF \E i \in 1..Len(pairs) : KeyEq(pairs[i][1], key) THEN pairs
  ELSE Append(pairs, <<key, value>>)

\* PyDict_SetItem(object, key, value): an equal key keeps its slot (and the
\* key object first stored), its value is replaced; a new key is added.
PyDict_SetItem(pairs, key, value) ==
  IF \E i \in 1..Len(pairs) : KeyEq(pairs[i][1], key)
    THEN [i \in 1..Len(pairs) |->
            IF KeyEq(pairs[i][1], key) THEN <<pairs[i][1], value>> ELSE pairs[i]]
    ELSE Append(pairs, <<key, value>>)

RECURSIVE decode_json(_, _, _, _)
RECURSIVE ArrayLoop(_, _, _, _, _, _, _)
RECURSIVE ObjectLoop(_, _, _, _, _, _, _)

\* An array decoder that takes a ']' after a comma.
ArrayLoop_trailingcomma(buf, start, q0, next_state, items, all_unicode, depth) ==
  LET q == skipSpaces(buf, q0)
      c == At(buf, q)
  IN Scan(q0, q,
     IF c = NUL
       THEN Fail(DecodeErrorAt("unterminated array starting at position ", start), q)
     ELSE IF c = RBRACKET THEN Ok(PyList(items), q + 1)
     ELSE IF next_state \in {"ArrayItem_or_ClosingBracket", "ArrayItem"}
       THEN IF c = COMMA
              THEN Fail(DecodeErrorAt("expecting array item at position ", q), q)
            ELSE LET item == decode_json(buf, q, all_unicode, depth) IN
                 After(item,
                   IF ~item.ok THEN Fail(item.err, item.ptr)
                   ELSE ArrayLoop(buf, start, item.ptr, "Comma_or_ClosingBracket",
                                  Append(items, item.val), all_unicode,
                                  depth + item.held))
     ELSE IF c = COMMA
       THEN ArrayLoop(buf, start, q + 1, "ArrayItem", items, all_unicode, depth)
     ELSE Fail(DecodeErrorAt("expecting ',' or ']' at position ", q), q))

\* The while loop of decode_array; start is the offset of the '['.
ArrayLoop(buf, start, q0, next_state, items, all_unicode, depth) ==
  LET q == skipSpaces(buf, q0)
      c == At(buf, q)
  IN Scan(q0, q,
     IF c = NUL
       THEN Fail(DecodeErrorAt("unterminated array starting at position ", start), q)
     ELSE IF next_state = "ArrayItem_or_ClosingBracket" /\ c = RBRACKET
       THEN Ok(PyList(items), q + 1)
     ELSE IF next_state \in {"ArrayItem_or_ClosingBracket", "ArrayItem"}
       THEN IF c = COMMA \/ c = RBRACKET
              THEN Fail(DecodeErrorAt("expecting array item at position ", q), q)
            ELSE LET item == decode_json(buf, q, all_unicode, depth) IN
                 After(item,
                   IF ~item.ok THEN Fail(item.err, item.ptr)
                   ELSE ArrayLoop(buf, start, item.ptr, "Comma_or_ClosingBracket",
                                  Append(items, item.val), all_unicode,
                                  depth + item.held))
     ELSE IF c = RBRACKET THEN Ok(PyList(items), q + 1)
     ELSE IF c = COMMA
       THEN ArrayLoop(buf, start, q + 1, "ArrayItem", items, all_unicode, depth)
     ELSE Fail(DecodeErrorAt("expecting ',' or ']' at position ", q), q))

decode_array(buf, p, all_unicode, depth) ==
  ArrayLoop(buf, p, p + 1, "ArrayItem_or_ClosingBracket", <<>>, all_unicode, depth)

\* An object decoder that reports the cursor for the start of the object.
ObjectLoop_cursor(buf, start, q0, next_state, pairs, all_unicode, depth) ==
  LET q == skipSpaces(buf, q0)
      c == At(buf, q)
  IN Scan(q0, q,
     IF c = NUL
       THEN Fail(DecodeErrorAt("unterminated object starting at position ", q), q)
     ELSE IF next_state = "DictionaryKey_or_ClosingBrace" /\ c = RBRACE
       THEN Ok(PyDict(pairs), q + 1)
     ELSE IF next_state \in {"DictionaryKey_or_ClosingBrace", "DictionaryKey"}
       THEN IF c # QUOTE
              THEN Fail(DecodeErrorAt("expecting object property name at position ", q), q)
            ELSE LET key == decode_json(buf, q, all_unicode, depth) IN
              After(key,
              IF ~key.ok THEN Fail(key.err, key.ptr)
              ELSE LET k1 == skipSpaces(buf, key.ptr) IN
                Scan(key.ptr, k1,
                IF At(buf, k1) # COLON
                  THEN Fail(DecodeErrorAt(
                         "missing colon after object property name at position ", k1), k1)
                ELSE LET k2 == skipSpaces(buf, k1 + 1) IN
                  Scan(k1 + 1, k2,
                  IF At(buf, k2) = COMMA \/ At(buf, k2) = RBRACE
                    THEN Fail(DecodeErrorAt(
                           "expecting object property value at position ", k2), k2)
                  ELSE LET value == decode_json(buf, k2, all_unicode, depth + key.held) IN
                    After(value,
                    IF ~value.ok THEN Fail(value.err, value.ptr)
                    ELSE ObjectLoop(buf, start, value.ptr, "Comma_or_ClosingBrace",
                                    PyDict_SetItem(pairs, key.val, value.val),
                                    all_unicode, depth + key.held + value.held)))))
     ELSE IF c = RBRACE THEN Ok(PyDict(pairs), q + 1)
     ELSE IF c = COMMA
       THEN ObjectLoop(buf, start, q + 1, "DictionaryKey", pairs, all_unicode, depth)
     ELSE Fail(DecodeErrorAt("expecting ',' or '}' at position ", q), q))

\* The while loop of decode_object; start is the offset of the '{'.
ObjectLoop(buf, start, q0, next_state, pairs, all_unicode, depth) ==
  LET q == skipSpaces(buf, q0)
      c == At(buf, q)
  IN Scan(q0, q,
     IF c = NUL
       THEN Fail(DecodeErrorAt("unterminated object starting at position ", start), q)
     ELSE IF next_state = "DictionaryKey_or_ClosingBrace" /\ c = RBRACE
       THEN Ok(PyDict(pairs), q + 1)
     ELSE IF next_state \in {"DictionaryKey_or_ClosingBrace", "DictionaryKey"}
       THEN IF c # QUOTE
              THEN Fail(DecodeErrorAt("expecting object property name at position ", q), q)
            ELSE LET key == decode_json(buf, q, all_unicode, depth) IN
              After(key,
              IF ~key.ok THEN Fail(key.err, key.ptr)
              ELSE LET k1 == skipSpaces(buf, key.ptr) IN
                Scan(key.ptr, k1,
                IF At(buf, k1) # COLON
                  THEN Fail(DecodeErrorAt(
                         "missing colon after object property name at position ", k1), k1)
                ELSE LET k2 == skipSpaces(buf, k1 + 1) IN
                  Scan(k1 + 1, k2,
                  IF At(buf, k2) = COMMA \/ At(buf, k2) = RBRACE
                    THEN Fail(DecodeErrorAt(
                           "expecting object property value at position ", k2), k2)
                  ELSE LET value == decode_json(buf, k2, all_unicode, depth + key.held) IN
                    After(value,
                    IF ~value.ok THEN Fail(value.err, value.ptr)
                    ELSE ObjectLoop(buf, start, value.ptr, "Comma_or_ClosingBrace",
                                    PyDict_SetItem(pairs, key.val, value.val),
                                    all_unicode, depth + key.held + value.held)))))
     ELSE IF c = RBRACE THEN Ok(PyDict(pairs), q + 1)
     ELSE IF c = COMMA
       THEN ObjectLoop(buf, start, q + 1, "DictionaryKey", pairs, all_unicode, depth)
     ELSE Fail(DecodeErrorAt("expecting ',' or '}' at position ", q), q))

decode_object(buf, p, all_unicode, depth) ==
  ObjectLoop(buf, p, p + 1, "DictionaryKey_or_ClosingBrace", <<>>, all_unicode, depth)

\* depth is the host's recursion_depth on entry.
decode_json(buf, p, all_unicode, depth) ==
  LET q == skipSpaces(buf, p)
      c == At(buf, q)
  IN Scan(p, IF c = PLUS \/ c = MINUS THEN q + 1 ELSE q,
     IF c = NUL THEN Fail(DecodeErrorMsg("empty JSON description"), q)
     ELSE IF c = LBRACE
       THEN IF RecursionExceeded(depth)
              THEN Fail(RecursionError(" while decoding a JSON object"), q)
            ELSE Guarded(decode_object(buf, q, all_unicode, depth + 1))
     ELSE IF c = LBRACKET
       THEN IF RecursionExceeded(depth)
              THEN Fail(RecursionError(" while decoding a JSON array"), q)
            ELSE Guarded(decode_array(buf, q, all_unicode, depth + 1))
     ELSE IF c = QUOTE THEN decode_string(buf, q, all_unicode)
     ELSE IF c = CH_t \/ c = CH_f THEN decode_bool(buf, q)
     ELSE IF c = CH_n THEN decode_null(buf, q)
     ELSE IF c = CH_N THEN decode_nan(buf, q)
     ELSE IF c = CH_I THEN decode_inf(buf, q)
     ELSE IF (c = PLUS \/ c = MINUS) /\ At(buf, q + 1) = CH_I THEN decode_inf(buf, q)
     ELSE IF c = PLUS \/ c = MINUS \/ isdigit(c) THEN decode_number(buf, q)
     ELSE Fail(DecodeErrorMsg("cannot parse JSON description"), q))

\* JSON_decode on a byte string without interior NUL.
\* A decoder that returns the first value whatever follows it.
JSON_decode_notrail(buf, all_unicode, depth) == decode_json(buf, 0, all_unicode, depth)

JSON_decode(buf, all_unicode, depth) ==
  LET object == decode_json(buf, 0, all_unicode, depth) IN
  IF ~object.ok THEN object
  ELSE LET q == skipSpaces(buf, object.ptr) IN
    After(object,
      Scan(object.ptr, q,
        IF q < Len(buf)
          THEN Fail(DecodeErrorAt("extra data after JSON description at position ", q), q)
        ELSE Ok(object.val, q)))

(* --------------------------- scalar encoders ------------------------- *)
hexdigit == <<48, 49, 50, 51, 52, 53, 54, 55, 56, 57, 97, 98, 99, 100, 101, 102>>

\* "\\u%04x" of a 16-bit value.
EscapeU(x) ==
  <<BACKSLASH, CH_u, hexdigit[((x \div 4096) % 16) + 1], hexdigit[((x \div 256) % 16) + 1],
    hexdigit[((x \div 16) % 16) + 1], hexdigit[(x % 16) + 1]>>

\* An encoder that writes DEL as it is.
EncodeByte_verbatimdel(c) ==
  IF c = QUOTE \/ c = BACKSLASH THEN <<BACKSLASH, c>>
  ELSE IF c = TAB THEN <<BACKSLASH, CH_t>>
  ELSE IF c = LF THEN <<BACKSLASH, CH_n>>
  ELSE IF c = CR THEN <<BACKSLASH, CH_r>>
  ELSE IF c = FF THEN <<BACKSLASH, CH_f>>
  ELSE IF c = BS THEN <<BACKSLASH, CH_b>>
  ELSE IF c < SPACE \/ c > DEL THEN EscapeU(c % 256)
  ELSE <<c>>

\* An encoder that writes the backslash as it is.
EncodeByte_rawbackslash(c) ==
  IF c = QUOTE THEN <<BACKSLASH, c>>
  ELSE IF c < SPACE \/ c >= DEL THEN EscapeU(c % 256)
  ELSE <<c>>

\* What encode_string writes for one byte c (0..255).
EncodeByte(c) ==
  IF c = QUOTE \/ c = BACKSLASH THEN <<BACKSLASH, c>>
  ELSE IF c = TAB THEN <<BACKSLASH, CH_t>>
  ELSE IF c = LF THEN <<BACKSLASH, CH_n>>
  ELSE IF c = CR THEN <<BACKSLASH, CH_r>>
  ELSE IF c = FF THEN <<BACKSLASH, CH_f>>
  ELSE IF c = BS THEN <<BACKSLASH, CH_b>>
  ELSE IF c < SPACE \/ c >= DEL THEN EscapeU(c % 256)
  ELSE <<c>>

RECURSIVE EncodeBytes(_, _)
EncodeBytes(bytes, i) ==
  IF i > Len(bytes) THEN <<>> ELSE EncodeByte(bytes[i]) \o EncodeBytes(bytes, i + 1)

encode_string(bytes) == <<QUOTE>> \o EncodeBytes(bytes, 1) \o <<QUOTE>>

\* The build's Py_UNICODE is 32 bits wide.
Py_UNICODE_WIDE == TRUE

\* An encoder that takes the high surrogate from the code point itself.
EncodeUnichar_nooffset(ch) ==
  IF ch = QUOTE \/ ch = BACKSLASH THEN <<BACKSLASH, ch>>
  ELSE IF Py_UNICODE_WIDE /\ ch >= 65536
    THEN LET ucs1 == (((ch \div 1024) % 1024) + 55296) % 65536
             ucs2 == (((ch - 65536) % 1024) + 56320) % 65536
         IN EscapeU(ucs1) \o EscapeU(ucs2)
  ELSE IF ch >= 256 THEN EscapeU(ch)
  ELSE IF ch = TAB THEN <<BACKSLASH, CH_t>>
  ELSE IF ch = LF THEN <<BACKSLASH, CH_n>>
  ELSE IF ch = CR THEN <<BACKSLASH, CH_r>>
  ELSE IF ch = FF THEN <<BACKSLASH, CH_f>>
  ELSE IF ch = BS THEN <<BACKSLASH, CH_b>>
  ELSE IF ch < SPACE \/ ch >= DEL
    THEN <<BACKSLASH, CH_u, CH_0, CH_0, hexdigit[((ch \div 16) % 16) + 1],
           hexdigit[(ch % 16) + 1]>>
  ELSE <<ch>>

\* What encode_unicode writes for one code unit ch.
EncodeUnichar(ch) ==
  IF ch = QUOTE \/ ch = BACKSLASH THEN <<BACKSLASH, ch>>
  ELSE IF Py_UNICODE_WIDE /\ ch >= 65536
    THEN LET ucs1 == ((((ch - 65536) \div 1024) % 1024) + 55296) % 65536
             ucs2 == (((ch - 65536) % 1024) + 56320) % 65536
         IN EscapeU(ucs1) \o EscapeU(ucs2)
  ELSE IF ch >= 256 THEN EscapeU(ch)
  ELSE IF ch = TAB THEN <<BACKSLASH, CH_t>>
  ELSE IF ch = LF THEN <<BACKSLASH, CH_n>>
  ELSE IF ch = CR THEN <<BACKSLASH, CH_r>>
  ELSE IF ch = FF THEN <<BACKSLASH, CH_f>>
  ELSE IF ch = BS THEN <<BACKSLASH, CH_b>>
  ELSE IF ch < SPACE \/ ch >= DEL
    THEN <<BACKSLASH, CH_u, CH_0, CH_0, hexdigit[((ch \div 16) % 16) + 1],
           hexdigit[(ch % 16) + 1]>>
  ELSE <<ch>>

RECURSIVE EncodeUnichars(_, _)
EncodeUnichars(cps, i) ==
  IF i > Len(cps) THEN <<>> ELSE EncodeUnichar(cps[i]) \o EncodeUnichars(cps, i + 1)

encode_unicode(cps) == <<QUOTE>> \o EncodeUnichars(cps, 1) \o <<QUOTE>>

\* The decimal digits of n >= 0, most significant first.
RECURSIVE NatDigits(_)
NatDigits(n) ==
  IF n < 10 THEN <<CH_0 + n>> ELSE Append(NatDigits(n \div 10), CH_0 + (n % 10))

\* PyObject_Str of an int or long.
PyObject_Str(i) == IF i < 0 THEN <<MINUS>> \o NatDigits(0 - i) ELSE NatDigits(i)

Zeros(n) == [i \in 1..n |-> CH_0]

\* repr() of a finite double written m * 10^e: positional notation while
\* the decimal exponent is in [-4, 16), scientific otherwise.
FloatRepr(f) ==
  LET d == NatDigits(f.m)
      n == Len(d)
      sci == n - 1 + f.e
      sign == IF f.neg THEN <<MINUS>> ELSE <<>>
      x == IF sci < 0 THEN 0 - sci ELSE sci
      body ==
        IF f.m = 0 THEN <<CH_0, DOT, CH_0>>
        ELSE IF sci >= -4 /\ sci < 16
          THEN IF f.e >= 0 THEN d \o Zeros(f.e) \o <<DOT, CH_0>>
               ELSE IF n + f.e > 0
                 THEN SubSeq(d, 1, n + f.e) \o <<DOT>> \o SubSeq(d, n + f.e + 1, n)
               ELSE <<CH_0, DOT>> \o Zeros(0 - (n + f.e)) \o d
        ELSE <<d[1]>> \o (IF n > 1 THEN <<DOT>> \o SubSeq(d, 2, n) ELSE <<>>)
             \o <<CH_e, IF sci < 0 THEN MINUS ELSE PLUS>>
             \o (IF x < 10 THEN <<CH_0>> ELSE <<>>) \o NatDigits(x)
  IN sign \o body

encode_float(f) ==
  IF f.cls = "nan" THEN KW_NaN
  ELSE IF f.cls = "inf"
    THEN IF ~f.neg THEN KW_Infinity ELSE <<MINUS>> \o KW_Infinity
  ELSE FloatRepr(f)

(* -------------------------- container encoders ----------------------- *)
\* The encoder's surroundings, threaded through the recursion:
\*   heap     the list and dict objects that have an identity of their own
\*            (id -> PyList / PyDict whose items may be [k |-> "ref"]),
\*   has_fallback  params.fallback is not NULL,
\*   fallback what the callable returns for each opaque object
\*            (id -> object, or [k |-> "raise"] when it raises),
\*   repr     the thread's Py_Repr list of objects being encoded,
\*   depth    the host's recursion_depth,
\*   calls    the opaque objects the fallback was called with, in order,
\*   inner    the JSON_encode calls made by the fallback while it ran,
\*   exc      the exception that is set (PyErr_Occurred), NoErr when none is,
\*   late     the objects handed to encode_object while an exception was set,
\*   low      the lowest recursion_depth the call went to,
\*   stack    the lists and dicts whose encoder has been entered and has not
\*            returned, outermost first,
\*   points   repr and stack as they were at every entry of encode_object.
EncodeError(msg) == [cls |-> "EncodeError", msg |-> msg, pos |-> NoPos, snip |-> <<>>]
EOk(out, st) == [ok |-> TRUE, out |-> out, err |-> NoErr, st |-> st]
EFail(err, st) == [ok |-> FALSE, out |-> <<>>, err |-> err, st |-> st]

InRepr(repr, id) == \E i \in 1..Len(repr) : repr[i] = id

\* Py_ReprEnter appends the object unless it is already in the list.
Py_ReprEnter(repr, id) == IF InRepr(repr, id) THEN repr ELSE Append(repr, id)

\* A Py_ReprLeave that deletes nothing.
Py_ReprLeave_keep(repr, id) == repr
\* Py_ReprLeave deletes the last occurrence of the object.
Py_ReprLeave(repr, id) ==
  IF ~InRepr(repr, id) THEN repr
  ELSE LET last == CHOOSE i \in 1..Len(repr) :
                     repr[i] = id /\ \A j \in (i + 1)..Len(repr) : repr[j] # id
       IN SubSeq(repr, 1, last - 1) \o SubSeq(repr, last + 1, Len(repr))

\* _PyString_Join(", ", pieces)
RECURSIVE JoinPieces(_, _)
JoinPieces(pieces, i) ==
  IF i > Len(pieces) THEN <<>>
  ELSE IF i = Len(pieces) THEN pieces[i]
  ELSE pieces[i] \o <<COMMA, SPACE>> \o JoinPieces(pieces, i + 1)

\* The object a reference denotes and its identity.  An object written
\* inline is a fresh object: no other object in the list is the same.
Deref(object, st) == IF object.k = "ref" THEN st.heap[object.v] ELSE object
Identity(object, st) == IF object.k = "ref" THEN object.v ELSE 0 - (Len(st.repr) + 1)

RECURSIVE encode_object(_, _)
RECURSIVE JSON_encode(_, _, _, _)
RECURSIVE EncodeItems(_, _, _, _)
RECURSIVE EncodePairs(_, _, _, _)

\* The for loop over the elements of a list or tuple: the pieces, or the
\* first failure.
EncodeItems(items, i, pieces, st) ==
  IF i > Len(items) THEN [ok |-> TRUE, pieces |-> pieces, err |-> NoErr, st |-> st]
  ELSE LET s == encode_object(items[i], st) IN
    IF ~s.ok THEN [ok |-> FALSE, pieces |-> pieces, err |-> s.err, st |-> s.st]
    ELSE EncodeItems(items, i + 1, Append(pieces, s.out), s.st)

encode_tuple(items, st) ==
  IF Len(items) = 0 THEN EOk(<<LBRACKET, RBRACKET>>, st)
  ELSE LET r == EncodeItems(items, 1, <<>>, st) IN
    IF ~r.ok THEN EFail(r.err, r.st)
    ELSE EOk(<<LBRACKET>> \o JoinPieces(r.pieces, 1) \o <<RBRACKET>>, r.st)

\* An encoder that leaves the list registered when an element fails.
encode_list_leak(id, items, st) ==
  IF InRepr(st.repr, id)
    THEN EFail(EncodeError("a list with references to itself is not JSON encodable"), st)
  ELSE LET st1 == [st EXCEPT !.repr = Py_ReprEnter(st.repr, id),
                             !.stack = Append(st.stack, id)] IN
    IF Len(items) = 0
      THEN EOk(<<LBRACKET, RBRACKET>>,
               [st1 EXCEPT !.repr = Py_ReprLeave(st1.repr, id), !.stack = st.stack])
    ELSE LET r == EncodeItems(items, 1, <<>>, st1)
             st2 == [r.st EXCEPT !.repr = Py_ReprLeave(r.st.repr, id),
                                 !.stack = st.stack]
         IN IF ~r.ok THEN EFail(r.err, [r.st EXCEPT !.stack = st.stack])
            ELSE EOk(<<LBRACKET>> \o JoinPieces(r.pieces, 1) \o <<RBRACKET>>, st2)

encode_list(id, items, st) ==
  IF InRepr(st.repr, id)
    THEN EFail(EncodeError("a list with references to itself is not JSON encodable"), st)
  ELSE LET st1 == [st EXCEPT !.repr = Py_ReprEnter(st.repr, id),
                             !.stack = Append(st.stack, id)] IN
    IF Len(items) = 0
      THEN EOk(<<LBRACKET, RBRACKET>>,
               [st1 EXCEPT !.repr = Py_ReprLeave(st1.repr, id), !.stack = st.stack])
    ELSE LET r == EncodeItems(items, 1, <<>>, st1)
             st2 == [r.st EXCEPT !.repr = Py_ReprLeave(r.st.repr, id),
                                 !.stack = st.stack]
         IN IF ~r.ok THEN EFail(r.err, st2)
            ELSE EOk(<<LBRACKET>> \o JoinPieces(r.pieces, 1) \o <<RBRACKET>>, st2)

\* The while (PyDict_Next(...)) loop of encode_dict.  The value is encoded
\* whether or not the key's encoding succeeded.
EncodePairs(pairs, i, pieces, st) ==
  IF i > Len(pairs) THEN [ok |-> TRUE, pieces |-> pieces, err |-> NoErr, st |-> st]
  ELSE LET key == pairs[i][1] IN
    IF key.k \notin {"str", "unicode", "hugestr"}
      THEN [ok |-> FALSE, pieces |-> pieces, st |-> st,
            err |-> EncodeError("JSON encodable dictionaries must have string/unicode keys")]
    ELSE LET ks == encode_object(key, st)
             vs == encode_object(pairs[i][2],
                                 [ks.st EXCEPT !.exc = IF ks.ok THEN @ ELSE ks.err])
         IN IF ~ks.ok
              THEN [ok |-> FALSE, pieces |-> pieces, st |-> vs.st,
                    err |-> IF vs.ok THEN ks.err ELSE vs.err]
            ELSE IF ~vs.ok
              THEN [ok |-> FALSE, pieces |-> pieces, err |-> vs.err, st |-> vs.st]
            ELSE EncodePairs(pairs, i + 1,
                             Append(pieces, ks.out \o <<COLON, SPACE>> \o vs.out), vs.st)

encode_dict(id, pairs, st) ==
  IF InRepr(st.repr, id)
    THEN EFail(EncodeError("a dict with references to itself is not JSON encodable"), st)
  ELSE LET st1 == [st EXCEPT !.repr = Py_ReprEnter(st.repr, id),
                             !.stack = Append(st.stack, id)] IN
    IF Len(pairs) = 0
      THEN EOk(<<LBRACE, RBRACE>>,
               [st1 EXCEPT !.repr = Py_ReprLeave(st1.repr, id), !.stack = st.stack])
    ELSE LET r == EncodePairs(pairs, 1, <<>>, st1)
             st2 == [r.st EXCEPT !.repr = Py_ReprLeave(r.st.repr, id),
                                 !.stack = st.stack]
         IN IF ~r.ok THEN EFail(r.err, st2)
            ELSE EOk(<<LBRACE>> \o JoinPieces(r.pieces, 1) \o <<RBRACE>>, st2)

\* Py_EnterRecursiveCall ... Py_LeaveRecursiveCall around a nested encoder:
\* the result with the depth the guard leaves behind.
Leave(r) ==
  [r EXCEPT !.st.depth = r.st.depth - 1,
            !.st.low = IF r.st.low < r.st.depth - 1 THEN r.st.low ELSE r.st.depth - 1]
Enter(st) == [st EXCEPT !.depth = st.depth + 1]

\* An encoder that encodes what the fallback returned without the fallback.
ResolveParams_nofallback(st) == [st EXCEPT !.has_fallback = FALSE]
\* encode_object(resolve, params): the fallback's result is encoded with
\* the params of the call, the fallback included.
ResolveParams(st) == st

\* A built-in callable `default' (it takes no frame of the interpreter) that
\* answers every object with an Integer, here 1.
InnerDefault ==
  [supplied |-> TRUE, none |-> FALSE, truthy |-> TRUE, callable |-> TRUE,
   fn |-> <<[k |-> "int", v |-> 1], [k |-> "int", v |-> 1]>>]

\* A fallback written in Python that returns cjson.encode(objs[id],
\* default=InnerDefault): its frame takes one level of the host's recursion
\* depth, the call runs on the thread state as it is, and what it returns
\* (a str) is encoded in place of the object; what it raises ends the call.
CallEncode(id, st) ==
  IF RecursionExceeded(st.depth) THEN EFail(RecursionError(""), st)
  ELSE LET now == [repr |-> st.repr, depth |-> st.depth + 1, stack |-> st.stack]
           r == JSON_encode([k |-> "ref", v |-> id], InnerDefault, st.heap, now)
           st2 == [st EXCEPT !.repr = r.st.repr, !.depth = r.st.depth - 1,
                             !.low = IF st.low < r.st.low THEN st.low ELSE r.st.low,
                             !.points = st.points \o r.st.points,
                             !.inner = Append(@, [root |-> id, tstate |-> now, ok |-> r.ok,
                                                  out |-> r.out, err |-> r.err])]
       IN IF ~r.ok THEN EFail(r.err, st2)
          ELSE encode_object(PyStr(r.out), ResolveParams(st2))

\* encode_string on a str whose escaped form could pass PY_SSIZE_T_MAX.
TooLarge ==
  [cls |-> "OverflowError", msg |-> "string is too large to make repr", pos |-> NoPos,
   snip |-> <<>>]

\* raise_encoding_error(object)
NotEncodable == EncodeError("object is not JSON encodable")

encode_object(object, params) ==
  LET o == Deref(object, params)
      seen == [params EXCEPT !.points =
                 Append(@, [repr |-> params.repr, stack |-> params.stack])]
      st == IF params.exc = NoErr THEN seen
            ELSE [seen EXCEPT !.late = Append(@, object)]
  IN
  IF o.k = "bool" THEN EOk(IF o.v THEN KW_true ELSE KW_false, st)
  ELSE IF o.k = "null" THEN EOk(KW_null, st)
  ELSE IF o.k = "hugestr" THEN EFail(TooLarge, st)
  ELSE IF o.k = "str" THEN EOk(encode_string(o.v), st)
  ELSE IF o.k = "unicode" THEN EOk(encode_unicode(o.v), st)
  ELSE IF o.k = "float" THEN EOk(encode_float(o.v), st)
  ELSE IF o.k = "int" THEN EOk(PyObject_Str(o.v), st)
  ELSE IF o.k = "list"
    THEN IF RecursionExceeded(st.depth)
           THEN EFail(RecursionError(" while encoding a JSON array from a Python list"), st)
         ELSE Leave(encode_list(Identity(object, st), o.v, Enter(st)))
  ELSE IF o.k = "tuple"
    THEN IF RecursionExceeded(st.depth)
           THEN EFail(RecursionError(" while encoding a JSON array from a Python tuple"), st)
         ELSE Leave(encode_tuple(o.v, Enter(st)))
  ELSE IF o.k = "dict"
    THEN IF RecursionExceeded(st.depth)
           THEN EFail(RecursionError(" while encoding a JSON object"), st)
         ELSE Leave(encode_dict(Identity(object, st), o.v, Enter(st)))
  ELSE IF st.has_fallback
    THEN IF RecursionExceeded(st.depth)
           THEN EFail(RecursionError(" while encoding a non-primitive Python object"), st)
         ELSE LET st1 == [Enter(st) EXCEPT !.calls = Append(st.calls, o.v)]
                  resolve == st.fallback[o.v]
              IN IF resolve.k = "raise"
                   THEN Leave(EFail([cls |-> "FallbackError", msg |-> "", pos |-> NoPos,
                                     snip |-> <<>>], st1))
                 ELSE IF st1.exc # NoErr THEN Leave(EFail(st1.exc, st1))
                 ELSE IF resolve.k = "encode" THEN Leave(CallEncode(resolve.v, st1))
                 ELSE Leave(encode_object(resolve, ResolveParams(st1)))
  ELSE EFail(NotEncodable, st)

(* ---------------------------- entry points --------------------------- *)
\* An entry point that takes every supplied `default' for a fallback.
JSON_encode_nofalsy(object, default, heapNow, tstateNow) ==
  LET st == [heap |-> heapNow, has_fallback |-> default.supplied, fallback |-> default.fn,
             repr |-> tstateNow.repr, depth |-> tstateNow.depth, calls |-> <<>>,
             inner |-> <<>>, exc |-> NoErr, late |-> <<>>, low |-> tstateNow.depth,
             stack |-> tstateNow.stack, points |-> <<>>]
  IN IF default.supplied /\ ~default.callable
       THEN EFail([cls |-> "ValueError", msg |-> "The 'default' argument is not callable",
                   pos |-> NoPos, snip |-> <<>>], st)
     ELSE encode_object(object, st)

\* JSON_encode(obj, default): default is what the caller passed,
\*   [supplied, none, truthy, callable, fn]; tstate is the thread state the host
\*   keeps between calls (the Py_Repr list, the recursion depth).
JSON_encode(object, default, heapNow, tstateNow) ==
  LET fallback_set == default.supplied /\ default.truthy
      st == [heap |-> heapNow, has_fallback |-> fallback_set, fallback |-> default.fn,
             repr |-> tstateNow.repr, depth |-> tstateNow.depth, calls |-> <<>>,
             inner |-> <<>>, exc |-> NoErr, late |-> <<>>, low |-> tstateNow.depth,
             stack |-> tstateNow.stack, points |-> <<>>]
  IN IF fallback_set /\ ~default.callable
       THEN EFail([cls |-> "ValueError", msg |-> "The 'default' argument is not callable",
                   pos |-> NoPos, snip |-> <<>>], st)
     ELSE encode_object(object, st)

(* ------------------------------- state ------------------------------- *)
VARIABLES
  json,         \* the input buffer handed to the decoder (bytes, no NUL)
  start,        \* the offset the cursor is at when a scalar decoder is entered
  all_unicode,  \* jsondata.all_unicode
  inserted,     \* whitespace bytes the caller added to the buffer
  phase,        \* what has been done so far
  dres,         \* what the decoder returned
  ddepth,       \* the host's recursion depth when the decoder was called
  eres,         \* what the encoder returned
  dres2,        \* what decoding again (the encoder's output, the spaced buffer) returned
  heap,         \* the caller's list and dict objects
  root,         \* the object handed to the encoder
  dflt,         \* the `default' argument handed to the encoder
  tstate        \* the host's thread state: Py_Repr list, recursion depth,
                \* the encoders that are running

vars == <<json, start, all_unicode, inserted, phase, dres, ddepth, eres, dres2,
          heap, root, dflt, tstate, limit>>
\* What a call of the encoder leaves alone, what a call of the decoder
\* leaves alone; neither changes the recursion limit.
inVars == <<json, start, all_unicode, inserted, limit>>
encVars == <<heap, root, dflt, limit>>

NoResult == Fail(NoErr, 0)
NoEncoding ==
  [ok |-> FALSE, out |-> <<>>, err |-> NoErr, calls |-> <<>>, inner |-> <<>>, late |-> <<>>,
   low |-> 0, points |-> <<>>]
NoDefault ==
  [supplied |-> FALSE, none |-> FALSE, truthy |-> FALSE, callable |-> FALSE, fn |-> <<>>]
EncodeResult(r) ==
  [ok |-> r.ok, out |-> r.out, err |-> r.err, calls |-> r.st.calls, inner |-> r.st.inner,
   late |-> r.st.late, low |-> r.st.low, points |-> r.st.points]
ThreadState(r) == [repr |-> r.st.repr, depth |-> r.st.depth, stack |-> r.st.stack]

\* The state before any call: an empty buffer, nothing decoded or encoded,
\* an idle thread, the recursion limit lim in force.
Fresh(lim) ==
  /\ json = <<>> /\ start = 0 /\ all_unicode = FALSE /\ inserted = 0
  /\ phase = "input"
  /\ dres = NoResult /\ ddepth = 0 /\ eres = NoEncoding /\ dres2 = NoResult
  /\ heap = <<>> /\ root = PyNone /\ dflt = NoDefault
  /\ tstate = [repr |-> <<>>, depth |-> 0, stack |-> <<>>]
  /\ limit = lim
Idle == Fresh(RecursionLimit)

\* The caller writes one more chunk of bytes into the buffer.
AppendChunk(chunks, maxChunks) ==
  /\ phase = "input" /\ inserted < maxChunks
  /\ \E c \in chunks : json' = json \o c
  /\ inserted' = inserted + 1
  /\ UNCHANGED <<start, all_unicode, phase, dres, ddepth, eres, dres2, tstate>>
  /\ UNCHANGED encVars

\* JSON_decode(json, all_unicode) at the thread's current depth.
Decode ==
  /\ phase = "input"
  /\ dres' = JSON_decode(json, all_unicode, tstate.depth)
  /\ tstate' = Returned(tstate, dres')
  /\ ddepth' = tstate.depth
  /\ phase' = "decoded"
  /\ UNCHANGED <<eres, dres2>>
  /\ UNCHANGED inVars /\ UNCHANGED encVars

\* JSON_encode of the decoded value.
EncodeDecoded ==
  /\ phase = "decoded" /\ dres.ok
  /\ LET r == JSON_encode(dres.val, dflt, heap, tstate)
     IN eres' = EncodeResult(r) /\ tstate' = ThreadState(r)
  /\ root' = dres.val
  /\ phase' = "encoded"
  /\ UNCHANGED <<dres, ddepth, dres2, heap, dflt>>
  /\ UNCHANGED inVars

(* ----------------- the number decoder and its re-encoding ------------ *)
\* The number of bytes in the buffer.
MaxNumLen == 4
NumAlphabet == {<<PLUS>>, <<MINUS>>, <<CH_0>>, <<CH_1>>, <<DOT>>, <<CH_e>>, <<CH_E>>, <<CH_x>>}

AppendNumByte == AppendChunk(NumAlphabet, MaxNumLen)

\* decode_number entered with the cursor at offset s.
DecodeNumber ==
  /\ phase = "input"
  /\ \E s \in {0, 1} :
       /\ s <= Len(json)
       /\ start' = s
       /\ dres' = decode_number(json, s)
  /\ phase' = "decoded"
  /\ UNCHANGED <<json, all_unicode, inserted, ddepth, eres, dres2, tstate>>
  /\ UNCHANGED encVars

NextNum == AppendNumByte \/ DecodeNumber \/ EncodeDecoded
SpecNum == Idle /\ [][NextNum]_vars

\* The grammar of the spec, stated on a byte sequence t:
\*   [sign] ('0' | nonzero digit, digits) ['.' digits+] [('e'|'E') [sign] digits+]
\* a is the end of the integer part, b the end of the fraction part.
AllDigits(t, from, to) == \A i \in from..to : isdigit(t[i])
NumberSplit(t, a, b) ==
  LET n == Len(t)
      s == IF n >= 1 /\ t[1] \in {PLUS, MINUS} THEN 1 ELSE 0
      xs == IF b + 2 <= n /\ t[b + 2] \in {PLUS, MINUS} THEN b + 3 ELSE b + 2
  IN /\ a >= s + 1 /\ a <= b /\ b <= n
     /\ AllDigits(t, s + 1, a)
     /\ (t[s + 1] = CH_0 => a = s + 1)
     /\ (b > a => t[a + 1] = DOT /\ b >= a + 2 /\ AllDigits(t, a + 2, b))
     /\ (n > b => t[b + 1] \in {CH_e, CH_E} /\ xs <= n /\ AllDigits(t, xs, n))
IsNumberToken(t) == \E a \in 1..Len(t) : \E b \in a..Len(t) : NumberSplit(t, a, b)
IsFloatToken(t) ==
  \E a \in 1..Len(t) : \E b \in a..Len(t) : NumberSplit(t, a, b) /\ (b > a \/ Len(t) > b)

Consumed == Slice(json, start, dres.ptr)

StripPlus(t) == IF Len(t) > 0 /\ t[1] = PLUS THEN Tail(t) ELSE t

\* C6 as stated: an accepted integer literal re-encodes to the same literal
\* with only a leading '+' removed.
C6_AsStated ==
  (phase = "encoded" /\ dres.val.k = "int") =>
    eres.ok /\ eres.out = StripPlus(Consumed)

\* C6: an accepted integer literal re-encodes to the same literal with a
\* leading '+' removed, except that "-0" re-encodes as "0".
C6_NumberFidelity ==
  (phase = "encoded" /\ dres.val.k = "int") =>
    /\ eres.ok
    /\ eres.out = (IF Consumed = <<MINUS, CH_0>> THEN <<CH_0>> ELSE StripPlus(Consumed))

\* C6's case: a signed literal of several digits was decoded and re-encoded.
C6_Witness ==
  /\ phase = "encoded" /\ dres.val.k = "int" /\ eres.ok
  /\ Len(Consumed) >= 3 /\ Consumed[1] = MINUS

(* ------------------------ decoding whole documents -------------------- *)
\* The number of chunks a document is written from.
MaxDocChunks == 4
KW_nul == <<CH_n, CH_u, 108>>
DocChunks ==
  { <<LBRACKET>>, <<RBRACKET>>, <<LBRACE>>, <<RBRACE>>, <<COMMA>>, <<COLON>>,
    <<QUOTE, CH_a, QUOTE>>, <<QUOTE, CH_b>>, <<CH_1>>, <<MINUS>>, <<SPACE>>,
    KW_null, KW_nul, <<CH_x>>,
    <<QUOTE, BACKSLASH, CH_n, BACKSLASH, CH_x, QUOTE>>,
    <<QUOTE, BACKSLASH, CH_u, QUOTE>>,
    <<LBRACE, QUOTE, CH_a, QUOTE, COLON>> }

AppendDocChunk == AppendChunk(DocChunks, MaxDocChunks)

NextDoc == AppendDocChunk \/ Decode
SpecDoc == Idle /\ [][NextDoc]_vars

\* The bytes the C locale's isspace() accepts.
WhitespaceBytes == {TAB, LF, VT, FF, CR, SPACE}
\* The offset of the first non-whitespace byte at or after e, Len(buf) if none.
TrailStart(buf, e) ==
  LET S == {i \in e..(Len(buf) - 1) : buf[i + 1] \notin WhitespaceBytes}
  IN IF S = {} THEN Len(buf) ELSE CHOOSE i \in S : \A k \in S : i <= k
\* The first value of the buffer, as the recursive decoder reads it.
TopValue == decode_json(json, 0, all_unicode, ddepth)
ExtraData(n) ==
  [cls |-> "DecodeError", msg |-> "extra data after JSON description at position ",
   pos |-> n, snip |-> <<>>]

\* C2: Decode succeeds only when the first value is followed by nothing but
\* whitespace; when a non-whitespace byte follows the value, Decode fails
\* with DecodeError("extra data after JSON description at position N"), N
\* the offset of the first such byte, and otherwise it returns that value.
C2_TrailingData ==
  phase = "decoded" =>
    LET n == TrailStart(json, TopValue.ptr) IN
      /\ dres.ok => TopValue.ok /\ n = Len(json) /\ dres.val = TopValue.val
      /\ TopValue.ok /\ n < Len(json) => ~dres.ok /\ dres.err = ExtraData(n)
      /\ TopValue.ok /\ n = Len(json) => dres.ok

\* A value, whitespace, then a stray byte: the error names the stray byte.
C2_Witness ==
  /\ phase = "decoded" /\ TopValue.ok
  /\ TopValue.ptr < TrailStart(json, TopValue.ptr)
  /\ TrailStart(json, TopValue.ptr) < Len(json)
  /\ dres.err = ExtraData(TrailStart(json, TopValue.ptr))

\* The DecodeError messages that are set without an offset.
NoOffsetMessages ==
  { "empty JSON description", "cannot parse JSON description",
    "cannot parse JSON description: " }
\* The messages that name the offset at which a token started, with the
\* bytes such a token can start with.
TokenStart(msg) ==
  IF msg = "unterminated array starting at position " THEN {LBRACKET}
  ELSE IF msg = "unterminated object starting at position " THEN {LBRACE}
  ELSE IF msg \in { "unterminated string starting at position ",
                    "invalid string starting at position ",
                    "cannot decode string starting at position " } THEN {QUOTE}
  ELSE IF msg = "invalid number starting at position " THEN {PLUS, MINUS} \cup (CH_0..CH_9)
  ELSE {}
DecodeFailed == phase = "decoded" /\ ~dres.ok /\ dres.err.cls = "DecodeError"

\* C7 as the spec states it: every DecodeError carries a byte offset.
C7_AsStated == DecodeFailed => dres.err.pos \in 0..Len(json)

\* C7: a DecodeError raised by Decode carries a 0-based byte offset into the
\* input, either the offset at which the error was detected (the cursor) or
\* the offset at which the failing token started, except the three errors
\* "empty JSON description", "cannot parse JSON description" (a byte that
\* starts no value) and "cannot parse JSON description: <text>" (a
\* misspelt keyword), which carry no offset.
C7_ErrorOffsets ==
  DecodeFailed =>
    IF dres.err.msg \in NoOffsetMessages THEN dres.err.pos = NoPos
    ELSE /\ dres.err.pos \in 0..Len(json)
         /\ IF TokenStart(dres.err.msg) # {}
              THEN /\ dres.err.pos <= dres.ptr
                   /\ At(json, dres.err.pos) \in TokenStart(dres.err.msg)
            ELSE dres.err.pos = dres.ptr

\* An error detected past the start of the buffer, inside a container.
C7_Witness ==
  /\ DecodeFailed /\ dres.err.pos > 1
  /\ TokenStart(dres.err.msg) = {} /\ At(json, 0) = LBRACKET

(* ----------------- whitespace between the tokens ---------------------- *)
\* The number of chunks the buffer is written from.
MaxWsChunks == 4
WsChunks ==
  { <<LBRACKET>>, <<RBRACKET>>, <<COMMA>>, <<CH_1>>, <<SPACE>>,
    <<LBRACE, QUOTE, CH_a, QUOTE, COLON>>, <<RBRACE>>,
    <<COMMA, CH_1>>, <<COMMA, QUOTE, CH_b, QUOTE, COLON, CH_1>> }
\* The whitespace a caller puts between two tokens.
WsRuns == {<<TAB>>, <<LF>>, <<VT>>, <<FF>>, <<CR>>, <<SPACE>>}

AppendWsChunk == AppendChunk(WsChunks, MaxWsChunks)

\* Is offset i of buf inside a string literal?  (A scan of the first i bytes.)
RECURSIVE StrScan(_, _, _, _, _)
StrScan(buf, i, k, in, esc) ==
  IF k > i THEN in
  ELSE IF ~in THEN StrScan(buf, i, k + 1, buf[k] = QUOTE, FALSE)
  ELSE IF esc THEN StrScan(buf, i, k + 1, TRUE, FALSE)
  ELSE IF buf[k] = BACKSLASH THEN StrScan(buf, i, k + 1, TRUE, TRUE)
  ELSE StrScan(buf, i, k + 1, buf[k] # QUOTE, FALSE)
Delimiters ==
  {LBRACKET, RBRACKET, LBRACE, RBRACE, COMMA, COLON, QUOTE} \cup WhitespaceBytes
\* Offset i lies between two tokens of buf, before the first or after the last.
BetweenTokens(buf, i) ==
  /\ ~StrScan(buf, i, 1, FALSE, FALSE)
  /\ IF i = 0 \/ i = Len(buf) THEN TRUE
     ELSE buf[i] \in Delimiters \/ buf[i + 1] \in Delimiters

\* The caller decodes the buffer, puts whitespace between two of its tokens
\* and decodes it again.
DecodeSpaced ==
  /\ phase = "input"
  /\ \E i \in 0..Len(json), w \in WsRuns :
       /\ BetweenTokens(json, i)
       /\ start' = i
       /\ json' = Slice(json, 0, i) \o w \o Slice(json, i, Len(json))
       /\ dres' = JSON_decode(json, all_unicode, tstate.depth)
       /\ dres2' = JSON_decode(json', all_unicode, Returned(tstate, dres').depth)
  /\ tstate' = Returned(Returned(tstate, dres'), dres2')
  /\ ddepth' = tstate.depth
  /\ phase' = "spaced"
  /\ UNCHANGED <<all_unicode, inserted, eres>>
  /\ UNCHANGED encVars

NextWs == AppendWsChunk \/ DecodeSpaced
SpecWs == Idle /\ [][NextWs]_vars

\* C9: a buffer and the same buffer with more whitespace (space, \t, \n, \v,
\* \f, \r) between two tokens, before the first or after the last, decode to
\* equal values (and one decodes exactly when the other does).
C9_WhitespaceInsensitive ==
  phase = "spaced" =>
    /\ dres2.ok = dres.ok
    /\ dres.ok => dres2.val = dres.val

\* Whitespace put inside a container that decodes, next to a separator.
C9_Witness ==
  /\ phase = "spaced" /\ dres.ok /\ dres2.ok
  /\ dres2.val.k \in {"list", "dict"} /\ Len(dres2.val.v) > 0
  /\ start > 0 /\ At(json, start) = VT
  /\ At(json, start + 1) \in {COMMA, RBRACE}

(* ------------------------- the depth of nesting ----------------------- *)
NestChunks == {<<LBRACKET>>, <<RBRACKET>>, <<LBRACE, QUOTE, CH_a, QUOTE, COLON>>, <<RBRACE>>}
AppendNestChunk == AppendChunk(NestChunks, 2 * RecursionLimit)

\* The host program calls one level deeper before it calls the codec.
PyCall ==
  /\ phase \in {"input", "decoded"}
  /\ tstate.depth < RecursionLimit
  /\ tstate' = [tstate EXCEPT !.depth = tstate.depth + 1]
  /\ UNCHANGED <<phase, dres, ddepth, eres, dres2>>
  /\ UNCHANGED inVars /\ UNCHANGED encVars

\* n tuples one inside the other, around an Integer.
RECURSIVE NestedTuple(_)
NestedTuple(n) == IF n = 0 THEN PyInt(1) ELSE PyTuple(<<NestedTuple(n - 1)>>)
\* A fallback that answers n - 1 opaque objects with the next one and the
\* last with an Integer.
FallbackChain(n) ==
  [supplied |-> TRUE, none |-> FALSE, truthy |-> TRUE, callable |-> TRUE,
   fn |-> [i \in 1..n |-> IF i < n THEN [k |-> "opaque", v |-> i + 1] ELSE PyInt(1)]]

\* JSON_encode of tuples the caller nested, or of an object that needs a
\* chain of fallback calls.
EncodeNested ==
  /\ phase = "input" /\ json = <<>>
  /\ \E n \in 1..(RecursionLimit + 1) :
       \/ root' = NestedTuple(n) /\ dflt' = NoDefault
       \/ root' = [k |-> "opaque", v |-> 1] /\ dflt' = FallbackChain(n)
  /\ LET r == JSON_encode(root', dflt', heap, tstate)
     IN eres' = EncodeResult(r) /\ tstate' = ThreadState(r)
  /\ phase' = "encoded"
  /\ UNCHANGED <<heap, dres, ddepth, dres2>>
  /\ UNCHANGED inVars

NextNest == AppendNestChunk \/ PyCall \/ Decode \/ EncodeDecoded \/ EncodeNested
SpecNest == Idle /\ [][NextNest]_vars

\* n arrays one inside the other.
RECURSIVE Brackets(_)
Brackets(n) == IF n = 0 THEN <<>> ELSE <<LBRACKET>> \o Brackets(n - 1) \o <<RBRACKET>>
\* The number of containers open after the first i bytes of buf, and the
\* largest such number over the buffer.
Opened(buf, i) ==
  Cardinality({k \in 1..i : buf[k] \in {LBRACKET, LBRACE}})
    - Cardinality({k \in 1..i : buf[k] \in {RBRACKET, RBRACE}})
MaxOpen(buf) ==
  CHOOSE d \in 0..Len(buf) :
    /\ \E i \in 0..Len(buf) : Opened(buf, i) = d
    /\ \A i \in 0..Len(buf) : Opened(buf, i) <= d
\* How many encoders are entered one inside the other to encode v: one per
\* list, tuple, dict and fallback call on the deepest path.
RECURSIVE ValueDepth(_, _)
ValueDepth(v, fn) ==
  IF v.k \in {"list", "tuple"}
    THEN 1 + (IF v.v = <<>> THEN 0
              ELSE LET ds == {ValueDepth(v.v[i], fn) : i \in 1..Len(v.v)}
                   IN CHOOSE d \in ds : \A e \in ds : e <= d)
  ELSE IF v.k = "dict"
    THEN 1 + (IF v.v = <<>> THEN 0
              ELSE LET ds == {ValueDepth(v.v[i][2], fn) : i \in 1..Len(v.v)}
                   IN CHOOSE d \in ds : \A e \in ds : e <= d)
  ELSE IF v.k = "opaque" THEN 1 + ValueDepth(fn[v.v], fn)
  ELSE 0
RecursionMessages ==
  { "maximum recursion depth exceeded while decoding a JSON array",
    "maximum recursion depth exceeded while decoding a JSON object",
    "maximum recursion depth exceeded while encoding a JSON array from a Python list",
    "maximum recursion depth exceeded while encoding a JSON array from a Python tuple",
    "maximum recursion depth exceeded while encoding a JSON object",
    "maximum recursion depth exceeded while encoding a non-primitive Python object" }
HostRecursionError(err) == err.cls = "RuntimeError" /\ err.msg \in RecursionMessages

MaxObjects == 1
MaxItems == 1
Ref(id) == [k |-> "ref", v |-> id]
Opaque(id) == [k |-> "opaque", v |-> id]
Raise == [k |-> "raise", v |-> 0]
\* What the caller puts into a list or a dict: an Integer, an object the
\* encoder does not know, one of the caller's lists and dicts.
Items == {PyInt(1), Opaque(1)} \cup {Ref(j) : j \in 1..Len(heap)}
\* The keys of the caller's dicts: a string, the empty tuple.
Keys == {PyStr(<<CH_a>>), PyTuple(<<>>)}

\* The heap changes, the rest stays.
HeapOnly ==
  /\ UNCHANGED <<phase, dres, ddepth, eres, dres2, root, dflt, tstate>>
  /\ UNCHANGED inVars

\* l = [] or d = {}
NewObject ==
  /\ phase = "input" /\ Len(heap) < MaxObjects
  /\ \E o \in {PyList(<<>>), PyDict(<<>>)} : heap' = Append(heap, o)
  /\ HeapOnly

\* l.append(item)
ListAppend ==
  /\ phase = "input"
  /\ \E id \in 1..Len(heap), item \in Items :
       /\ heap[id].k = "list" /\ Len(heap[id].v) < MaxItems
       /\ heap' = [heap EXCEPT ![id].v = Append(@, item)]
  /\ HeapOnly

\* l[i] = item
ListSetItem ==
  /\ phase = "input"
  /\ \E id \in 1..Len(heap), item \in Items :
       /\ heap[id].k = "list"
       /\ \E i \in 1..Len(heap[id].v) :
            /\ heap[id].v[i] # item
            /\ heap' = [heap EXCEPT ![id].v[i] = item]
  /\ HeapOnly

\* d[key] = item
DictSetItem ==
  /\ phase = "input"
  /\ \E id \in 1..Len(heap), key \in Keys, item \in Items :
       /\ heap[id].k = "dict"
       /\ heap[id].v # PyDict_SetItem(heap[id].v, key, item)
       /\ heap' = [heap EXCEPT ![id].v = PyDict_SetItem(@, key, item)]
  /\ HeapOnly

\* The caller has the result (or the exception) and goes on; the thread
\* state stays as the call left it.
Return ==
  /\ phase = "encoded"
  /\ phase' = "input" /\ eres' = NoEncoding /\ root' = PyNone /\ dflt' = NoDefault
  /\ UNCHANGED <<heap, dres, ddepth, dres2, tstate>>
  /\ UNCHANGED inVars

\* What a callable `default' answers for the two opaque objects.
FallbackResults == {PyInt(1), Opaque(1), Opaque(2), Raise} \cup {Ref(j) : j \in 1..Len(heap)}
FallbackFns == {f \in [1..2 -> FallbackResults] : f[2] \in {PyInt(1), Opaque(1), Raise}}
\* The `default' arguments: left out, None, another false object (0, "",
\* []), a true object that cannot be called, a function.
Defaults ==
  { NoDefault,
    [supplied |-> TRUE, none |-> TRUE, truthy |-> FALSE, callable |-> FALSE, fn |-> <<>>],
    [supplied |-> TRUE, none |-> FALSE, truthy |-> FALSE, callable |-> FALSE, fn |-> <<>>],
    [supplied |-> TRUE, none |-> FALSE, truthy |-> TRUE, callable |-> FALSE, fn |-> <<>>] }
  \cup { [supplied |-> TRUE, none |-> FALSE, truthy |-> TRUE, callable |-> TRUE, fn |-> f] :
         f \in FallbackFns }
Roots == {Opaque(1)} \cup {Ref(j) : j \in 1..Len(heap)}

\* JSON_encode(obj, default) on one of the caller's objects.
Encode ==
  /\ phase = "input" /\ json = <<>>
  /\ \E r \in Roots, d \in Defaults :
       /\ root' = r /\ dflt' = d
       /\ LET e == JSON_encode(r, d, heap, tstate)
          IN eres' = EncodeResult(e) /\ tstate' = ThreadState(e)
  /\ phase' = "encoded"
  /\ UNCHANGED <<heap, dres, ddepth, dres2>>
  /\ UNCHANGED inVars

\* The caller is some calls deep when the heap is still empty.
PyCallFirst == heap = <<>> /\ PyCall

NextEnc ==
  PyCallFirst \/ NewObject \/ ListAppend \/ ListSetItem \/ DictSetItem \/ Encode \/ Return
SpecEnc == Idle /\ [][NextEnc]_vars

\* The objects a list or dict of the heap holds, and the keys of a dict.
ItemsOf(o) ==
  IF o.k = "list" THEN {o.v[i] : i \in 1..Len(o.v)} ELSE {o.v[i][2] : i \in 1..Len(o.v)}
KeysOf(o) == IF o.k = "dict" THEN {o.v[i][1] : i \in 1..Len(o.v)} ELSE {}
\* The containers a container holds, and those it reaches.
Edges(id) == {it.v : it \in {x \in ItemsOf(heap[id]) : x.k = "ref"}}
RECURSIVE Closure(_)
Closure(S) ==
  LET T == S \cup UNION {Edges(i) : i \in S} IN IF T = S THEN S ELSE Closure(T)
ReachFrom(id) == Closure({id})
OnCycle(id) == id \in Closure(Edges(id))
CycleReachable(id) == \E j \in ReachFrom(id) : OnCycle(j)
\* Nothing but Integers, lists and dicts with string keys below id.
Plain(id) ==
  \A j \in ReachFrom(id) :
    /\ \A it \in ItemsOf(heap[j]) : it.k \in {"int", "ref"}
    /\ \A key \in KeysOf(heap[j]) : key.k = "str"
\* The containers open at once on the deepest path below id (no cycle).
RECURSIVE HeapDepth(_)
HeapDepth(id) ==
  IF Edges(id) = {} THEN 1
  ELSE LET ds == {HeapDepth(j) : j \in Edges(id)}
       IN 1 + CHOOSE d \in ds : \A e \in ds : e <= d
ListSelfReference == EncodeError("a list with references to itself is not JSON encodable")
DictSelfReference == EncodeError("a dict with references to itself is not JSON encodable")
\* The `default' argument passed the checks of JSON_encode.
Dispatched == ~(dflt.supplied /\ dflt.truthy /\ ~dflt.callable)
FallbackInForce == dflt.supplied /\ dflt.truthy /\ dflt.callable
EncodedRef == phase = "encoded" /\ root.k = "ref" /\ Dispatched

RECURSIVE Chain(_, _)
Chain(id, n) ==
  IF n = 0 THEN <<>>
  ELSE <<id>> \o (IF dflt.fn[id].k = "opaque" THEN Chain(dflt.fn[id].v, n - 1) ELSE <<>>)
EncodedOpaque == phase = "encoded" /\ root.k = "opaque"

C8_AsStated ==
  phase = "encoded" /\ dflt.supplied /\ ~dflt.none /\ ~dflt.callable =>
    ~eres.ok /\ eres.err.cls = "ValueError"

\* C8: Encode called with a `default' argument that is true in the host's
\* sense and not callable raises ValueError whatever the value to encode,
\* and attempts no encoding; a `default' that is false in the host's sense
\* (None, 0, an empty string or container) is taken as not supplied, and
\* Encode goes on without a fallback.
C8_NonCallableDefault ==
  phase = "encoded" =>
    /\ dflt.supplied /\ dflt.truthy /\ ~dflt.callable =>
         /\ ~eres.ok /\ eres.err.cls = "ValueError"
         /\ eres.out = <<>> /\ eres.calls = <<>>
    /\ eres.err.cls = "ValueError" => dflt.supplied /\ dflt.truthy /\ ~dflt.callable
    /\ dflt.supplied /\ ~dflt.truthy =>
         eres = EncodeResult(JSON_encode(root, NoDefault, heap, tstate))

\* A true `default' that cannot be called, with a value that would encode.
C8_Witness ==
  /\ phase = "encoded" /\ dflt.supplied /\ dflt.truthy /\ ~dflt.callable
  /\ root.k = "ref" /\ Plain(root.v) /\ ~CycleReachable(root.v)
  /\ eres.err.cls = "ValueError"

(* ------------------ decode, encode and decode again ------------------- *)
\* The number of containers one inside the other in a document.
MaxNest == 1
\* String literals: "a", "\u0041", "\n\x80", "\n\u0080", a raw DEL byte,
\* "\\\"", a raw byte 0xE9, "\\u".
StringTexts ==
  { <<QUOTE, CH_a, QUOTE>>,
    <<QUOTE, BACKSLASH, CH_u, CH_0, CH_0, 52, CH_1, QUOTE>>,
    <<QUOTE, BACKSLASH, CH_n, BACKSLASH, CH_x, 56, CH_0, QUOTE>>,
    <<QUOTE, BACKSLASH, CH_n, BACKSLASH, CH_u, CH_0, CH_0, 56, CH_0, QUOTE>>,
    <<QUOTE, DEL, QUOTE>>,
    <<QUOTE, BACKSLASH, BACKSLASH, BACKSLASH, QUOTE, QUOTE>>,
    <<QUOTE, 233, QUOTE>>,
    <<QUOTE, BACKSLASH, BACKSLASH, CH_u, QUOTE>> }
\* 1, -0, 1.5, 1e2, NaN, -Infinity, null, true
OtherTexts ==
  { <<CH_1>>, <<MINUS, CH_0>>, <<CH_1, DOT, 53>>, <<CH_1, CH_e, 50>>,
    KW_NaN, <<MINUS>> \o KW_Infinity, KW_null, KW_true }
ScalarTexts == StringTexts \cup OtherTexts
\* The documents with at most n containers one inside the other.
RECURSIVE Docs(_)
Docs(n) ==
  IF n = 0 THEN ScalarTexts
  ELSE LET D == Docs(n - 1) IN
    ScalarTexts
    \cup {<<LBRACKET>> \o d \o <<RBRACKET>> : d \in D}
    \cup {<<LBRACKET>> \o s \o <<COMMA>> \o d \o <<RBRACKET>> :
            s \in {<<CH_1>>, <<QUOTE, DEL, QUOTE>>}, d \in D}
    \cup {<<LBRACE>> \o k \o <<COLON>> \o d \o <<RBRACE>> : k \in StringTexts, d \in D}
    \cup {<<LBRACE>> \o k[1] \o <<COLON, CH_1, COMMA>> \o k[2] \o <<COLON>> \o d \o <<RBRACE>> :
            k \in StringTexts \X StringTexts, d \in D}

\* JSON_decode of one of the documents, for either setting of all_unicode.
DecodeDocument ==
  /\ phase = "input"
  /\ \E d \in Docs(MaxNest), u \in BOOLEAN :
       /\ json' = d /\ all_unicode' = u
       /\ dres' = JSON_decode(d, u, tstate.depth)
  /\ tstate' = Returned(tstate, dres')
  /\ ddepth' = tstate.depth
  /\ phase' = "decoded"
  /\ UNCHANGED <<start, inserted, eres, dres2>>
  /\ UNCHANGED encVars

\* JSON_decode of what the encoder wrote.
DecodeEncoded ==
  /\ phase = "encoded" /\ eres.ok
  /\ dres2' = JSON_decode(eres.out, all_unicode, tstate.depth)
  /\ tstate' = Returned(tstate, dres2')
  /\ phase' = "redecoded"
  /\ UNCHANGED <<dres, ddepth, eres>>
  /\ UNCHANGED inVars /\ UNCHANGED encVars

NextTrip == DecodeDocument \/ EncodeDecoded \/ DecodeEncoded
SpecTrip == Idle /\ [][NextTrip]_vars

IsString(v) == v.k \in {"str", "unicode"}
\* The bytes and code points the encoders write as \u00XX.
NeedsU(c) == c >= DEL \/ (c < SPACE /\ c \notin {TAB, LF, CR, FF, BS})
\* The kind a String has when it has been encoded and decoded again.
KindAfterTrip(v) ==
  IF all_unicode \/ \E i \in 1..Len(v.v) : NeedsU(v.v[i]) THEN "unicode" ELSE "str"
\* a and b are the same value when a String is read as its sequence of
\* code points (a byte of a byte string being the code point of that number).
RECURSIVE SameContent(_, _)
SameContent(a, b) ==
  IF IsString(a) THEN IsString(b) /\ a.v = b.v
  ELSE IF a.k = "list"
    THEN /\ b.k = "list" /\ Len(a.v) = Len(b.v)
         /\ \A i \in 1..Len(a.v) : SameContent(a.v[i], b.v[i])
  ELSE IF a.k = "dict"
    THEN /\ b.k = "dict" /\ Len(a.v) = Len(b.v)
         /\ \A i \in 1..Len(a.v) :
              SameContent(a.v[i][1], b.v[i][1]) /\ SameContent(a.v[i][2], b.v[i][2])
  ELSE a.k = b.k /\ a.v = b.v
\* Every String of b, b having the content of a, has the kind expected
\* from the String of a in its place.
RECURSIVE KindsAsExpected(_, _)
KindsAsExpected(a, b) ==
  IF IsString(a) THEN b.k = KindAfterTrip(a)
  ELSE IF a.k = "list" THEN \A i \in 1..Len(a.v) : KindsAsExpected(a.v[i], b.v[i])
  ELSE IF a.k = "dict"
    THEN \A i \in 1..Len(a.v) :
           KindsAsExpected(a.v[i][1], b.v[i][1]) /\ KindsAsExpected(a.v[i][2], b.v[i][2])
  ELSE TRUE
\* No dict of v has two keys that differ in kind only.
RECURSIVE NoKeysAlike(_)
NoKeysAlike(v) ==
  IF v.k = "list" THEN \A i \in 1..Len(v.v) : NoKeysAlike(v.v[i])
  ELSE IF v.k = "dict"
    THEN /\ \A i \in 1..Len(v.v) : NoKeysAlike(v.v[i][2])
         /\ \A i, j \in 1..Len(v.v) : i # j => v.v[i][1].v # v.v[j][1].v
  ELSE TRUE

MaxPairs == 3
\* The key texts "a", "a" (the same key, written as an escape), "b".
PairKeys ==
  { <<QUOTE, CH_a, QUOTE>>, <<QUOTE, BACKSLASH, CH_u, CH_0, CH_0, 54, CH_1, QUOTE>>,
    <<QUOTE, CH_b, QUOTE>> }
\* The value texts 1, null, [1], {"a":1}.
PairValues ==
  { <<CH_1>>, KW_null, <<LBRACKET, CH_1, RBRACKET>>,
    <<LBRACE, QUOTE, CH_a, QUOTE, COLON, CH_1, RBRACE>> }

\* The caller writes one more pair into the object text.
AppendPair ==
  /\ phase = "input" /\ inserted < MaxPairs
  /\ \E key \in PairKeys, value \in PairValues :
       json' = (IF json = <<>> THEN <<LBRACE>> ELSE json \o <<COMMA>>)
                 \o key \o <<COLON>> \o value
  /\ inserted' = inserted + 1
  /\ UNCHANGED <<start, all_unicode, phase, dres, ddepth, eres, dres2, tstate>>
  /\ UNCHANGED encVars

\* The caller closes the object and calls JSON_decode on it.
DecodeObject ==
  /\ phase = "input"
  /\ \E u \in BOOLEAN :
       /\ all_unicode' = u
       /\ json' = (IF json = <<>> THEN <<LBRACE>> ELSE json) \o <<RBRACE>>
       /\ dres' = JSON_decode(json', u, tstate.depth)
  /\ tstate' = Returned(tstate, dres')
  /\ ddepth' = tstate.depth
  /\ phase' = "decoded"
  /\ UNCHANGED <<start, inserted, eres, dres2>>
  /\ UNCHANGED encVars

NextObj == AppendPair \/ DecodeObject
SpecObj == Idle /\ [][NextObj]_vars

\* The texts of the pairs of the object text buf, cut at the commas of the
\* outermost object.
RECURSIVE SplitAt(_, _, _)
SplitAt(buf, from, i) ==
  IF i >= Len(buf) THEN <<SubSeq(buf, from, Len(buf) - 1)>>
  ELSE IF buf[i] = COMMA /\ Opened(buf, i) = 1
    THEN <<SubSeq(buf, from, i - 1)>> \o SplitAt(buf, i + 1, i + 1)
  ELSE SplitAt(buf, from, i + 1)
PairTexts == IF Len(json) <= 2 THEN <<>> ELSE SplitAt(json, 2, 2)
\* The key and the value written in the pair text t, each decoded alone.
FirstColon(t) == CHOOSE i \in 1..Len(t) : t[i] = COLON /\ \A j \in 1..(i - 1) : t[j] # COLON
PairOf(t) ==
  <<decode_json(SubSeq(t, 1, FirstColon(t) - 1), 0, all_unicode, 0).val,
    decode_json(SubSeq(t, FirstColon(t) + 1, Len(t)), 0, all_unicode, 0).val>>
WrittenPairs == [i \in 1..Len(PairTexts) |-> PairOf(PairTexts[i])]
\* The index of the last pair written with the key of pair i.
LastWritten(P, i) ==
  CHOOSE j \in i..Len(P) :
    KeyEq(P[j][1], P[i][1]) /\ \A m \in (j + 1)..Len(P) : ~KeyEq(P[m][1], P[i][1])

\* C11: an object text decodes to an Object that has, for every key written
\* in it, exactly one entry, whose value is the value written with the last
\* occurrence of that key (a key written plainly and the same key written
\* with \u escapes are one key); it has no other entry.
C11_LastWins ==
  phase = "decoded" =>
    /\ dres.ok /\ dres.val.k = "dict"
    /\ LET P == WrittenPairs
           D == dres.val.v
       IN /\ \A e \in 1..Len(D) : \E i \in 1..Len(P) : KeyEq(D[e][1], P[i][1])
          /\ \A i \in 1..Len(P) :
               /\ Cardinality({e \in 1..Len(D) : KeyEq(D[e][1], P[i][1])}) = 1
               /\ \A e \in 1..Len(D) :
                    KeyEq(D[e][1], P[i][1]) => D[e][2] = P[LastWritten(P, i)][2]

\* A key written three times, plainly and as an escape, with three
\* different values: one entry, holding the third value.
C11_Witness ==
  /\ phase = "decoded" /\ ~all_unicode /\ Len(WrittenPairs) = 3
  /\ WrittenPairs[1][1] = PyStr(<<CH_a>>) /\ WrittenPairs[2][1] = PyUnicode(<<CH_a>>)
  /\ WrittenPairs[3][1] = PyStr(<<CH_a>>)
  /\ WrittenPairs[1][2] = PyInt(1) /\ WrittenPairs[2][2] = PyNone
  /\ dres.val = PyDict(<<<<PyStr(<<CH_a>>), PyList(<<PyInt(1)>>)>>>>)

(* ------------------- the kind of the decoded Strings ------------------ *)
\* The Strings of a value: itself, elements, keys and values at any depth.
RECURSIVE StringsOf(_)
StringsOf(v) ==
  IF IsString(v) THEN {v}
  ELSE IF v.k = "list" THEN UNION {StringsOf(v.v[i]) : i \in 1..Len(v.v)}
  ELSE IF v.k = "dict"
    THEN UNION {StringsOf(v.v[i][1]) \cup StringsOf(v.v[i][2]) : i \in 1..Len(v.v)}
  ELSE {}
\* The number of backslashes that end at index i of t.
RECURSIVE BackslashRun(_, _)
BackslashRun(t, i) ==
  IF i < 1 \/ t[i] # BACKSLASH THEN 0 ELSE 1 + BackslashRun(t, i - 1)
\* The token t holds a non-ASCII byte or a \u escape.
Marked(t) ==
  \E i \in 1..Len(t) :
    \/ t[i] > 127
    \/ t[i] = CH_u /\ BackslashRun(t, i - 1) % 2 = 1
\* The token t is written somewhere in buf.
Occurs(t, buf) ==
  \E i \in 0..(Len(buf) - Len(t)) : SubSeq(buf, i + 1, i + Len(t)) = t

\* C12: with all_unicode set every String of the decoded value (the value
\* itself, array elements, object values and keys, at any depth) is a
\* Unicode String; with all_unicode clear a String of the decoded value is
\* Unicode only when it is the content of a token of the text that holds a
\* non-ASCII byte or a \u escape.
C12_AllUnicode ==
  phase = "decoded" /\ dres.ok =>
    \A s \in StringsOf(dres.val) :
      IF all_unicode THEN s.k = "unicode"
      ELSE s.k = "unicode" =>
             \E t \in StringTexts :
               /\ Occurs(t, json) /\ Marked(t)
               /\ decode_string(t, 0, FALSE).val = s

\* With all_unicode set, a plain ASCII key and a plain ASCII value of an
\* object come back Unicode.
C12_Witness ==
  /\ phase = "decoded" /\ dres.ok /\ all_unicode
  /\ dres.val.k = "dict" /\ Len(dres.val.v) = 2
  /\ dres.val.v[1][1] = PyUnicode(<<CH_a>>)
  /\ dres.val.v[2][2] = PyUnicode(<<CH_a>>)
  /\ Occurs(<<QUOTE, CH_a, QUOTE>>, json)

(* ------------- Encode called from inside the fallback ----------------- *)
\* The fallback answers an opaque object with the Integer 1 or with the
\* text that cjson.encode gives for one of the caller's containers.
Reenter(id) == [k |-> "encode", v |-> id]
ReentrantFns == [1..2 -> {PyInt(1)} \cup {Reenter(j) : j \in 1..Len(heap)}]

\* JSON_encode(obj, default) with a fallback that may call JSON_encode.
EncodeReentrant ==
  /\ phase = "input" /\ json = <<>>
  /\ \E r \in Roots, f \in ReentrantFns :
       /\ root' = r
       /\ dflt' = [supplied |-> TRUE, none |-> FALSE, truthy |-> TRUE, callable |-> TRUE,
                   fn |-> f]
       /\ LET e == JSON_encode(r, dflt', heap, tstate)
          IN eres' = EncodeResult(e) /\ tstate' = ThreadState(e)
  /\ phase' = "encoded"
  /\ UNCHANGED <<heap, dres, ddepth, dres2>>
  /\ UNCHANGED inVars

NextRe ==
  PyCallFirst \/ NewObject \/ ListAppend \/ ListSetItem \/ DictSetItem \/ EncodeReentrant
    \/ Return
\* The program has raised the recursion limit by two.
IdleRaised == Fresh(RecursionLimit + 2)
SpecRe == IdleRaised /\ [][NextRe]_vars

\* What the call c made by the fallback gives when nothing is registered.
AloneResult(c) ==
  JSON_encode(Ref(c.root), InnerDefault, heap, [c.tstate EXCEPT !.repr = <<>>])

\* C13: an Encode call made by the fallback while the outer Encode call is
\* running starts with an empty in-progress set: it gives what the same
\* call gives when no container is registered, so a container without a
\* cycle that the outer call is encoding is encoded by the inner call.
C13_PerCallSet ==
  phase = "encoded" =>
    \A n \in 1..Len(eres.inner) :
      LET c == eres.inner[n]
          alone == AloneResult(c)
      IN c.ok = alone.ok /\ c.out = alone.out /\ c.err = alone.err

(* ------------------- what a failure leaves undone --------------------- *)
\* d[key] = item with a key too large to encode
DictSetLargeKey ==
  /\ phase = "input"
  /\ \E id \in 1..Len(heap), item \in Items :
       /\ heap[id].k = "dict"
       /\ heap[id].v # PyDict_SetItem(heap[id].v, PyStrTooLarge, item)
       /\ heap' = [heap EXCEPT ![id].v = PyDict_SetItem(@, PyStrTooLarge, item)]
  /\ HeapOnly

NextAbort ==
  NewObject \/ ListAppend \/ ListSetItem \/ DictSetItem \/ DictSetLargeKey \/ Encode
    \/ Return
SpecAbort == Idle /\ [][NextAbort]_vars

\* C14: once the encoding of an element, a key or a value has failed,
\* Encode hands no further object to the encoder and calls the fallback no
\* more before it returns the error.
C14_AbortAtOnce ==
  phase = "encoded" => eres.late = <<>>

(* -------------------- the states of the array decoder ----------------- *)
\* The end of a run of the digit 1 that starts at offset i.
RECURSIVE OnesEnd(_, _)
OnesEnd(buf, i) == IF At(buf, i) = CH_1 THEN OnesEnd(buf, i + 1) ELSE i
\* The offset after the item 1.., "a" or null written at offset i, -1 when
\* something else is written there.
ItemEnd(buf, i) ==
  IF At(buf, i) = CH_1 THEN OnesEnd(buf, i)
  ELSE IF i + 3 <= Len(buf) /\ Slice(buf, i, i + 3) = <<QUOTE, CH_a, QUOTE>> THEN i + 3
  ELSE IF i + 4 <= Len(buf) /\ Slice(buf, i, i + 4) = KW_null THEN i + 4
  ELSE -1
Expected(kind, msg, pos, n) == [kind |-> kind, msg |-> msg, pos |-> pos, n |-> n]
\* What the state machine ITEM_OR_CLOSE / ITEM / COMMA_OR_CLOSE / DONE gives
\* for the array opened at offset open, read on from offset i in state
\* state with n items so far, level arrays being open: done (pos is the
\* offset after the ']'), an error, or unknown when an item is none of the
\* items above or the arrays are nested deeper than the limit allows.
RECURSIVE ExpectArray(_, _, _, _, _, _)
ExpectArray(buf, open, i, state, n, level) ==
  LET q == TrailStart(buf, i)
      c == At(buf, q)
  IN IF q >= Len(buf)
       THEN Expected("error", "unterminated array starting at position ", open, n)
     ELSE IF c = RBRACKET /\ state # "ITEM" THEN Expected("done", "", q + 1, n)
     ELSE IF state = "COMMA_OR_CLOSE"
       THEN IF c = COMMA THEN ExpectArray(buf, open, q + 1, "ITEM", n, level)
            ELSE Expected("error", "expecting ',' or ']' at position ", q, n)
     ELSE IF c = COMMA \/ c = RBRACKET
       THEN Expected("error", "expecting array item at position ", q, n)
     ELSE IF c = LBRACKET
       THEN IF level + 1 > RecursionLimit THEN Expected("unknown", "", q, n)
            ELSE LET inner == ExpectArray(buf, q, q + 1, "ITEM_OR_CLOSE", 0, level + 1)
                 IN IF inner.kind = "done"
                      THEN ExpectArray(buf, open, inner.pos, "COMMA_OR_CLOSE", n + 1, level)
                    ELSE inner
     ELSE IF ItemEnd(buf, q) >= 0
       THEN ExpectArray(buf, open, ItemEnd(buf, q), "COMMA_OR_CLOSE", n + 1, level)
     ELSE Expected("unknown", "", q, n)
\* The buffer holds an array as its first value.
ArrayText == TrailStart(json, 0) < Len(json) /\ At(json, TrailStart(json, 0)) = LBRACKET
ExpectedArray ==
  ExpectArray(json, TrailStart(json, 0), TrailStart(json, 0) + 1, "ITEM_OR_CLOSE", 0, 1)

\* C15: the array decoder follows the state machine ITEM_OR_CLOSE / ITEM /
\* COMMA_OR_CLOSE / DONE: it takes ']' in ITEM_OR_CLOSE and COMMA_OR_CLOSE
\* only; a ',' or ']' where an item is required fails with "expecting array
\* item at position N"; a byte other than ',' or ']' after an item fails
\* with "expecting ',' or ']' at position N"; the end of the buffer at the
\* start of a step fails with "unterminated array starting at position N",
\* N the offset of the '['; otherwise the array is read to its ']' with as
\* many items as were written.
C15_ArrayStates ==
  phase = "decoded" /\ ArrayText =>
    LET x == ExpectedArray IN
      /\ x.kind = "done" =>
           /\ TopValue.ok /\ TopValue.ptr = x.pos
           /\ TopValue.val.k = "list" /\ Len(TopValue.val.v) = x.n
      /\ x.kind = "error" =>
           /\ ~dres.ok
           /\ dres.err = [cls |-> "DecodeError", msg |-> x.msg, pos |-> x.pos, snip |-> <<>>]

\* "[1,]": the ']' comes where an item is required.
C15_Witness ==
  /\ phase = "decoded" /\ json = <<LBRACKET, CH_1, COMMA, RBRACKET>>
  /\ ~dres.ok /\ dres.err.msg = "expecting array item at position " /\ dres.err.pos = 3

(* ----------------------- objects that are cut short ------------------- *)
\* The state in which the object decoder meets the end of the buffer when
\* it reads an object of keys "a" and items 1.., "a", null on from offset i
\* in state state; "none" when something else ends the decoding first.
RECURSIVE ObjectEnd(_, _, _)
ObjectEnd(buf, i, state) ==
  LET q == TrailStart(buf, i)
      c == At(buf, q)
  IN IF q >= Len(buf) THEN state
     ELSE IF state \in {"KEY_OR_CLOSE", "KEY"}
       THEN IF q + 3 <= Len(buf) /\ Slice(buf, q, q + 3) = <<QUOTE, CH_a, QUOTE>>
              THEN ObjectEnd(buf, q + 3, "COLON")
            ELSE "none"
     ELSE IF state = "COLON"
       THEN IF c = COLON THEN ObjectEnd(buf, q + 1, "VALUE") ELSE "none"
     ELSE IF state = "VALUE"
       THEN IF ItemEnd(buf, q) >= 0 THEN ObjectEnd(buf, ItemEnd(buf, q), "COMMA_OR_CLOSE")
            ELSE "none"
     ELSE IF c = COMMA THEN ObjectEnd(buf, q + 1, "KEY")
     ELSE "none"
\* The buffer holds an object as its first value.
ObjectText == TrailStart(json, 0) < Len(json) /\ At(json, TrailStart(json, 0)) = LBRACE
CutShortIn == ObjectEnd(json, TrailStart(json, 0) + 1, "KEY_OR_CLOSE")
UnterminatedObject ==
  DecodeErrorAt("unterminated object starting at position ", TrailStart(json, 0))

\* C16 as the spec states it: wherever the end of the buffer cuts an object
\* short, the error is "unterminated object starting at position N".
C16_AsStated ==
  phase = "decoded" /\ ObjectText /\ CutShortIn # "none" =>
    ~dres.ok /\ dres.err = UnterminatedObject

\* C16: when the end of the buffer is reached where the object decoder
\* expects a key or '}', a key after ',', or ',' or '}', Decode fails with
\* DecodeError "unterminated object starting at position N", N the offset
\* of the '{'; when it is reached after a key, where ':' is expected,
\* Decode fails with "missing colon after object property name at position
\* N", N the length of the buffer; when it is reached after the ':', where
\* the value is expected, Decode fails with "empty JSON description".
C16_CutShort ==
  phase = "decoded" /\ ObjectText /\ CutShortIn # "none" =>
    /\ ~dres.ok
    /\ dres.err =
         (IF CutShortIn = "COLON"
            THEN DecodeErrorAt("missing colon after object property name at position ",
                               Len(json))
          ELSE IF CutShortIn = "VALUE" THEN DecodeErrorMsg("empty JSON description")
          ELSE UnterminatedObject)

\* An object cut short after the comma that follows its first pair.
C16_Witness ==
  /\ phase = "decoded" /\ ObjectText /\ CutShortIn = "KEY"
  /\ TrailStart(json, 0) = 1 /\ dres.err = UnterminatedObject

(* ------------------- string tokens and string objects ---------------- *)
\* The number of chunks in a string token, the number of bytes or code
\* points in a String handed to the encoder.
MaxStrChunks == 5
MaxStrLen == 2
StrChunks ==
  {<<QUOTE>>, <<BACKSLASH>>, <<CH_a>>, <<CH_n>>, <<CH_u>>, <<CH_u, CH_0, CH_0, CH_e, CH_1>>,
   <<DEL + 1>>, <<255>>}
\* Bytes and code points that follow the first one of a String.
ByteSample == {NUL, LF, SPACE - 1, QUOTE, BACKSLASH, CH_a, DEL, 255}
UniSample == {CH_a, 65535, 65536, 1114111}
\* Code points above U+FFFF: every high half with some low halves, every
\* low half with some high halves.
Supplementary ==
  {65536 + hi * 1024 + lo : hi \in 0..1023, lo \in {0, 1, 341, 1023}}
    \cup {65536 + hi * 1024 + lo : hi \in {0, 1, 682, 1023}, lo \in 0..1023}

\* The caller writes a string token: an opening quote, then more bytes.
AppendStrChunk ==
  /\ root.k = "null"
  /\ AppendChunk(IF json = <<>> THEN {<<QUOTE>>} ELSE StrChunks, MaxStrChunks)

\* decode_string entered with the cursor at the opening quote.
DecodeString ==
  /\ phase = "input" /\ json # <<>>
  /\ \E u \in BOOLEAN :
       /\ all_unicode' = u
       /\ dres' = decode_string(json, 0, u)
  /\ phase' = "decoded"
  /\ UNCHANGED <<json, start, inserted, ddepth, eres, dres2, tstate>>
  /\ UNCHANGED encVars

\* The caller makes an empty String of either kind.
NewString ==
  /\ phase = "input" /\ json = <<>> /\ root.k = "null"
  /\ root' \in {PyStr(<<>>), PyUnicode(<<>>)}
  /\ UNCHANGED <<phase, dres, ddepth, eres, dres2, heap, dflt, tstate>>
  /\ UNCHANGED inVars

\* The caller adds one byte or one code point to the String.
StringAppend ==
  /\ phase = "input" /\ root.k \in {"str", "unicode"} /\ Len(root.v) < MaxStrLen
  /\ \E c \in (IF root.k = "str"
                 THEN (IF root.v = <<>> THEN 0..255 ELSE ByteSample)
               ELSE IF root.v = <<>> THEN Supplementary ELSE UniSample) :
       root' = [root EXCEPT !.v = Append(@, c)]
  /\ UNCHANGED <<phase, dres, ddepth, eres, dres2, heap, dflt, tstate>>
  /\ UNCHANGED inVars

\* JSON_encode of the String.
EncodeString ==
  /\ phase = "input" /\ root.k \in {"str", "unicode"}
  /\ LET e == JSON_encode(root, dflt, heap, tstate)
     IN eres' = EncodeResult(e) /\ tstate' = ThreadState(e)
  /\ phase' = "encoded"
  /\ UNCHANGED <<root, heap, dflt, dres, ddepth, dres2>>
  /\ UNCHANGED inVars

NextStr == AppendStrChunk \/ DecodeString \/ NewString \/ StringAppend \/ EncodeString
SpecStr == Idle /\ [][NextStr]_vars

\* The quotes of the token that are not escaped, the opening one aside.
Closers == {i \in 2..Len(json) : json[i] = QUOTE /\ BackslashRun(json, i - 1) % 2 = 0}
FirstCloser == CHOOSE i \in Closers : \A j \in Closers : i <= j
Interior == SubSeq(json, 2, FirstCloser - 1)

\* C17 as the spec states it: the scan ends at the first quote that is not
\* escaped, and a token whose interior holds a non-ASCII byte, wherever it
\* stands, or a \u escape is decoded as a Unicode String.
C17_AsStated ==
  phase = "decoded" =>
    IF Closers = {}
      THEN ~dres.ok
           /\ dres.err = DecodeErrorAt("unterminated string starting at position ", 0)
    ELSE dres.ok =>
           /\ dres.ptr = FirstCloser
           /\ (Marked(Interior) => dres.val.k = "unicode")

\* The lowercase hexadecimal digit of d, the value of such a digit.
LowerHex(d) == IF d < 10 THEN CH_0 + d ELSE CH_a + (d - 10)
HexOf(c) == IF c \in CH_0..CH_9 THEN c - CH_0 ELSE IF c \in CH_a..CH_f THEN c - CH_a + 10 ELSE -65536
\* The text the spec gives for one byte.
ByteText(c) ==
  IF c \in {QUOTE, BACKSLASH} THEN <<BACKSLASH, c>>
  ELSE IF c = TAB THEN <<BACKSLASH, CH_t>>
  ELSE IF c = LF THEN <<BACKSLASH, CH_n>>
  ELSE IF c = CR THEN <<BACKSLASH, CH_r>>
  ELSE IF c = FF THEN <<BACKSLASH, CH_f>>
  ELSE IF c = BS THEN <<BACKSLASH, CH_b>>
  ELSE IF c < 32 \/ c >= 127
    THEN <<BACKSLASH, CH_u, CH_0, CH_0, LowerHex(c \div 16), LowerHex(c % 16)>>
  ELSE <<c>>
RECURSIVE Concat(_, _)
Concat(texts, i) == IF i > Len(texts) THEN <<>> ELSE texts[i] \o Concat(texts, i + 1)

\* C18: the byte-string encoder writes a double quote, the text of every
\* byte in input order (backslash and the byte for '"' and '\', the short
\* escape for TAB, LF, CR, FF and BS, \u00hh in lowercase for every other
\* byte below 0x20 or from 0x7F on, the byte itself otherwise) and a double
\* quote; the output is never longer than 2 + 6 * (input length).
C18_ByteString ==
  phase = "encoded" /\ root.k = "str" =>
    /\ eres.ok
    /\ eres.out = <<QUOTE>> \o Concat([i \in 1..Len(root.v) |-> ByteText(root.v[i])], 1)
                    \o <<QUOTE>>
    /\ Len(eres.out) <= 2 + 6 * Len(root.v)

\* The byte 0xFF and a double quote, written as ÿ and \".
C18_Witness ==
  /\ phase = "encoded" /\ root.k = "str" /\ root.v = <<255, QUOTE>>
  /\ eres.out = <<QUOTE, BACKSLASH, CH_u, CH_0, CH_0, CH_f, CH_f, BACKSLASH, QUOTE, QUOTE>>

\* The value of the four hexadecimal digits of t from index i on.
Hex4(t, i) ==
  HexOf(t[i]) * 4096 + HexOf(t[i + 1]) * 256 + HexOf(t[i + 2]) * 16 + HexOf(t[i + 3])

\* C19: for a Unicode String of code points in [0x10000, 0x10FFFF] the
\* encoder writes, for every code point cp, exactly two \uXXXX escapes
\* with high = 0xD800 + ((cp - 0x10000) >> 10) and
\* low = 0xDC00 + ((cp - 0x10000) & 0x3FF); high lies in [0xD800, 0xDBFF],
\* low in [0xDC00, 0xDFFF], and
\* 0x10000 + ((high - 0xD800) << 10) + (low - 0xDC00) is cp.
C19_SurrogatePairs ==
  phase = "encoded" /\ root.k = "unicode"
    /\ (\A i \in 1..Len(root.v) : root.v[i] \in 65536..1114111) =>
    /\ eres.ok
    /\ Len(eres.out) = 2 + 12 * Len(root.v)
    /\ eres.out[1] = QUOTE /\ eres.out[Len(eres.out)] = QUOTE
    /\ \A i \in 1..Len(root.v) :
         LET cp == root.v[i]
             t == SubSeq(eres.out, 12 * i - 10, 12 * i + 1)
             high == Hex4(t, 3)
             low == Hex4(t, 9)
         IN /\ t[1] = BACKSLASH /\ t[2] = CH_u /\ t[7] = BACKSLASH /\ t[8] = CH_u
            /\ high = 55296 + ((cp - 65536) \div 1024)
            /\ low = 56320 + ((cp - 65536) % 1024)
            /\ high \in 55296..56319 /\ low \in 56320..57343
            /\ 65536 + (high - 55296) * 1024 + (low - 56320) = cp

\* U+10FFFF, written as 􏿿.
C19_Witness ==
  /\ phase = "encoded" /\ root.k = "unicode" /\ root.v = <<1114111>>
  /\ eres.out = <<QUOTE, BACKSLASH, CH_u, 100, CH_b, CH_f, CH_f,
                  BACKSLASH, CH_u, 100, CH_f, CH_f, CH_f, QUOTE>>

(* ------------------------ the recursion guard ------------------------ *)
\* C20: when Decode or Encode returns, with a value or with an error, the
\* host's recursion depth is what it was when the call began, and during
\* the call it never was below that.
C20_Balanced ==
  [][/\ (phase = "input" /\ phase' = "decoded" =>
           tstate'.depth = tstate.depth /\ dres'.low >= 0)
     /\ (phase # "encoded" /\ phase' = "encoded" =>
           tstate'.depth = tstate.depth /\ eres'.low >= tstate.depth)]_vars

\* Decode called one level deep on two arrays that are never closed: the
\* error comes from the inner one and the depth is 1 again.
C20_Witness ==
  /\ phase = "decoded" /\ json = <<LBRACKET, LBRACKET>> /\ ~dres.ok
  /\ dres.err = DecodeErrorAt("unterminated array starting at position ", 1)
  /\ ddepth = 1 /\ tstate.depth = 1

(* ------------------- containers referenced more than once ------------ *)
\* JSON_encode(obj) on the first container of a heap of as many containers
\* as the recursion limit lets nest, each holding no, one or two references
\* to containers of the heap (itself included); all of them lists, all of
\* them dicts with the keys "a" and "b", or lists and dicts in turn.
EncodeDag ==
  /\ phase = "input" /\ json = <<>>
  /\ LET ids == 1..RecursionLimit
         refs == {Ref(j) : j \in ids}
         shapes == {<<>>} \cup {<<x>> : x \in refs} \cup (refs \X refs)
         keys == <<PyStr(<<CH_a>>), PyStr(<<CH_b>>)>>
         AsDict(sh) == PyDict([i \in 1..Len(sh) |-> <<keys[i], sh[i]>>])
     IN \E kd \in {"list", "dict", "both"}, f \in [ids -> shapes] :
          LET h == [i \in ids |->
                      IF kd = "list" \/ (kd = "both" /\ i % 2 = 1) THEN PyList(f[i])
                      ELSE AsDict(f[i])]
              e == JSON_encode(Ref(1), dflt, h, tstate)
          IN /\ heap' = h /\ root' = Ref(1)
             /\ eres' = EncodeResult(e) /\ tstate' = ThreadState(e)
  /\ phase' = "encoded"
  /\ UNCHANGED <<dflt, dres, ddepth, dres2>>
  /\ UNCHANGED inVars

NextDag == EncodeDag
SpecDag == Idle /\ [][NextDag]_vars

\* The members of a sequence.
Members(q) == {q[i] : i \in 1..Len(q)}
\* The text of a container of the heap that reaches no cycle and holds
\* Integers and containers under plain keys, every reference written out
\* in full.
RECURSIVE TextOf(_)
TextOf(id) ==
  LET o == heap[id]
      Item(it) == IF it.k = "ref" THEN TextOf(it.v) ELSE NatDigits(it.v)
      parts == [i \in 1..Len(o.v) |->
                  IF o.k = "list" THEN Item(o.v[i])
                  ELSE <<QUOTE>> \o o.v[i][1].v \o <<QUOTE, COLON, SPACE>>
                         \o Item(o.v[i][2])]
  IN (IF o.k = "list" THEN <<LBRACKET>> ELSE <<LBRACE>>)
       \o JoinPieces(parts, 1)
       \o (IF o.k = "list" THEN <<RBRACKET>> ELSE <<RBRACE>>)
\* Some container is referenced twice below id.
Shared(id) ==
  \E j \in ReachFrom(id) :
    \/ \E a, b \in ReachFrom(id) : a # b /\ j \in Edges(a) /\ j \in Edges(b)
    \/ \E a \in ReachFrom(id) :
         \E m, n \in 1..Len(heap[a].v) :
           m # n /\ (IF heap[a].k = "list" THEN heap[a].v[m] = Ref(j) /\ heap[a].v[n] = Ref(j)
                     ELSE heap[a].v[m][2] = Ref(j) /\ heap[a].v[n][2] = Ref(j))

\* C21: at every entry of encode_object during an Encode call, and when the
\* call returns, the in-progress set holds exactly the lists and dicts
\* whose encoder has been entered and has not returned; a container is
\* rejected as a reference to itself only when some container it reaches
\* lies on a cycle; and lists and dicts that reach no cycle, the same
\* container referenced more than once or not, encode to the text in which
\* every reference is written out in full.
C21_EncodeStack ==
  phase = "encoded" =>
    /\ \A i \in 1..Len(eres.points) :
         /\ Members(eres.points[i].repr) = Members(eres.points[i].stack)
         /\ Len(eres.points[i].repr) = Len(eres.points[i].stack)
    /\ tstate.repr = <<>> /\ tstate.stack = <<>>
    /\ root.k = "ref" /\ Plain(root.v) /\ Dispatched =>
         IF CycleReachable(root.v)
           THEN ~eres.ok
         ELSE HeapDepth(root.v) + tstate.depth <= limit =>
                eres.ok /\ eres.out = TextOf(root.v)

\* A list that holds a dict and a list, and the dict holds that same list:
\* the list is written twice, at two depths.
C21_Witness ==
  /\ phase = "encoded" /\ eres.ok /\ Shared(1)
  /\ heap[1] = PyList(<<Ref(2), Ref(3)>>)
  /\ heap[2] = PyDict(<<<<PyStr(<<CH_a>>), Ref(3)>>>>)
  /\ heap[3] = PyList(<<>>)
  /\ eres.out = <<LBRACKET, LBRACE, QUOTE, CH_a, QUOTE, COLON, SPACE, LBRACKET, RBRACKET,
                  RBRACE, COMMA, SPACE, LBRACKET, RBRACKET, RBRACKET>>

(* ----------------------------- cursor safety -------------------------- *)
\* C22: when a Decode call on a buffer without interior NUL has returned,
\* every offset the cursor took lies between the start of the buffer and
\* its terminating NUL, the cursor started at the start of the buffer and
\* never moved backwards, it is left where it was last put, and no byte
\* was read at an offset beyond the terminating NUL.
C22_CursorSafety ==
  phase = "decoded" =>
    /\ \A i \in 1..Len(json) : json[i] # NUL
    /\ dres.far <= Len(json)
    /\ \A i \in 1..Len(dres.trail) : 0 <= dres.trail[i] /\ dres.trail[i] <= Len(json)
    /\ \A i \in 1..(Len(dres.trail) - 1) : dres.trail[i] <= dres.trail[i + 1]
    /\ dres.trail[1] = start /\ dres.trail[Len(dres.trail)] = dres.ptr

\* C22's case: the cursor moved past a '[' to a '-' that ends the buffer,
\* and the lookahead after the sign read the terminating NUL.
C22_Witness ==
  /\ phase = "decoded" /\ json = <<LBRACKET, MINUS>>
  /\ dres.ptr = 1 /\ dres.far = Len(json) /\ ~dres.ok

====
